---- MODULE Spec2Model ----
(***************************************************************************)
(* A model of thestral2: the binary radix trie and the rule matcher built  *)
(* on it, the dispatcher (processOneRequest), the relay engine (doRelay    *)
(* and relayHalf) and the SOCKS5 server and client handshakes.             *)
(***************************************************************************)
EXTENDS Integers, Sequences, FiniteSets, TLC

(***************************************************************************)
(* uint32 words.  TLC integers are 32-bit signed, so a uint32 is a vector  *)
(* of bitStrWordSize bits, index 1 the most significant; shifts drop the   *)
(* bits that leave the word exactly as Go's shifts on uint32 do.           *)
(***************************************************************************)
bitStrWordSize == 32

ZeroWord == [i \in 1..bitStrWordSize |-> 0]

\* uint32(b) of a byte b
U32(b) ==
    [i \in 1..bitStrWordSize |->
        IF i > bitStrWordSize - 8 THEN (b \div (2 ^ (bitStrWordSize - i))) % 2
        ELSE 0]

\* w << k on uint32
Shl(w, k) == [i \in 1..bitStrWordSize |-> IF i + k <= bitStrWordSize THEN w[i + k] ELSE 0]

\* w >> k on uint32
Shr(w, k) == [i \in 1..bitStrWordSize |-> IF i - k >= 1 THEN w[i - k] ELSE 0]

\* a | b
Or(a, b) == [i \in 1..bitStrWordSize |-> IF a[i] = 1 \/ b[i] = 1 THEN 1 ELSE 0]

\* a ^ b
Xor(a, b) == [i \in 1..bitStrWordSize |-> IF a[i] # b[i] THEN 1 ELSE 0]

\* the number of times m >>= 1 runs until m = 0
ShiftsToZero(m) ==
    IF m = ZeroWord THEN 0
    ELSE LET first == CHOOSE k \in 1..bitStrWordSize :
                         /\ m[k] = 1
                         /\ \A j \in 1..(k - 1) : m[j] = 0
         IN  bitStrWordSize - first + 1

(***************************************************************************)
(* bitStr: Words (Go index i is Words[i + 1] here) and BitLen.             *)
(***************************************************************************)
EmptyBitStr == [Words |-> <<>>, BitLen |-> 0]

\* the loop over the tailing bytes of bitStrFromBytes: shift starts at 16
\* and is halved (shift >>= 1) after each byte
RECURSIVE TailingLoop(_, _, _, _, _, _)
TailingLoop(b, nFullWord, nTailingBytes, i, shift, lastWord) ==
    IF i < nTailingBytes
    THEN TailingLoop(b, nFullWord, nTailingBytes, i + 1, shift \div 2,
                     Or(lastWord, Shl(U32(b[nFullWord * 4 + i + 1]), shift)))
    ELSE lastWord

bitStrFromBytes(b, n) ==
    IF n = 0 THEN EmptyBitStr
    ELSE LET nw == (n - 1) \div bitStrWordSize + 1
             nFullWord == n \div bitStrWordSize
             fullWord(i) == Or(Or(Shl(U32(b[i * 4 + 1]), 24),
                                  Shl(U32(b[i * 4 + 2]), 16)),
                               Or(Shl(U32(b[i * 4 + 3]), 8),
                                  U32(b[i * 4 + 4])))
             nTailingBytes == (n - 1) \div 8 + 1 - nFullWord * 4
             lastWord == TailingLoop(b, nFullWord, nTailingBytes, 1, 16,
                                     Shl(U32(b[nFullWord * 4 + 1]), 24))
         IN  [Words |-> [i \in 1..nw |->
                            IF i <= nFullWord THEN fullWord(i - 1)
                            ELSE IF nTailingBytes > 0 THEN lastWord
                            ELSE ZeroWord],
              BitLen |-> n]

Bit(s, i) ==
    LET w == s.Words[i \div bitStrWordSize + 1]
    IN  Shr(w, bitStrWordSize - (i % bitStrWordSize) - 1)[bitStrWordSize] = 1

\* the copy of the shift = 0 branch and the loop of the other branch: word
\* j of the result is (Words[start+j] << shift) | suffix, the suffix being
\* the top bits of the next word of s when s has one
Substr(s, from, n) ==
    IF n = 0 THEN EmptyBitStr
    ELSE LET nw == (n - 1) \div bitStrWordSize + 1
             start == from \div bitStrWordSize
             shift == from % bitStrWordSize
         IN  IF shift = 0
             THEN [Words |-> [j \in 1..nw |-> s.Words[start + j]], BitLen |-> n]
             ELSE [Words |-> [j \in 1..nw |->
                                Or(Shl(s.Words[start + j], shift),
                                   IF start + j + 1 <= Len(s.Words)
                                   THEN Shr(s.Words[start + j + 1],
                                            bitStrWordSize - shift)
                                   ELSE ZeroWord)],
                   BitLen |-> n]

RECURSIVE CommPfxLoop(_, _, _, _, _)
CommPfxLoop(s, o, i, l, nw) ==
    IF i < nw
    THEN LET m == Xor(s.Words[i + 1], o.Words[i + 1])
         IN  IF m # ZeroWord
             THEN l + bitStrWordSize - ShiftsToZero(m)
             ELSE CommPfxLoop(s, o, i + 1, l + bitStrWordSize, nw)
    ELSE l

CommPfxLen(s, o) ==
    LET n == IF s.BitLen > o.BitLen THEN o.BitLen ELSE s.BitLen
    IN  IF n = 0 THEN 0
        ELSE LET nw == (n - 1) \div bitStrWordSize + 1
                 l == CommPfxLoop(s, o, 0, 0, nw)
             IN  IF l > n THEN n ELSE l

(***************************************************************************)
(* brtNode.  The trie is a heap of nodes: a pointer is an index into the   *)
(* sequence, nil is 0, and the root (the ipMatcher's brt field) is node 1. *)
(***************************************************************************)
NilPtr == 0

NilData == "nil"

NewBrtNode(data) ==
    [zPfx |-> EmptyBitStr, oPfx |-> EmptyBitStr,
     zChild |-> NilPtr, oChild |-> NilPtr, data |-> data]

EmptyBrt == <<NewBrtNode(NilData)>>

RootPtr == 1

RECURSIVE FindPrefixLoop(_, _, _, _)
FindPrefixLoop(nodes, n, str, lastHasData) ==
    IF str.BitLen > 0 /\ n # NilPtr
    THEN LET last == IF nodes[n].data # NilData THEN n ELSE lastHasData
             pfx == IF Bit(str, 0) THEN nodes[n].oPfx ELSE nodes[n].zPfx
             child == IF Bit(str, 0) THEN nodes[n].oChild ELSE nodes[n].zChild
             l == pfx.BitLen
         IN  IF CommPfxLen(str, pfx) # l
             THEN [n |-> n, lastHasData |-> last]
             ELSE FindPrefixLoop(nodes, child, Substr(str, l, str.BitLen - l), last)
    ELSE [n |-> n, lastHasData |-> lastHasData]

FindPrefix(nodes, str) ==
    LET r == FindPrefixLoop(nodes, RootPtr, str, NilPtr)
    IN  IF r.n # NilPtr /\ nodes[r.n].data # NilData THEN nodes[r.n].data
        ELSE IF r.lastHasData # NilPtr THEN nodes[r.lastHasData].data
        ELSE NilData

\* the body of Insert's loop; newNode is allocated before the loop, the
\* new parent of a split when it is needed.  The result is the heap and
\* whether Insert panicked ("duplicated key found").
RECURSIVE InsertLoop(_, _, _, _, _, _)
InsertLoop(nodes, n, prev, str, data, newNode) ==
    IF str.BitLen = 0 THEN [nodes |-> nodes, panic |-> TRUE]
    ELSE IF n = NilPtr
    THEN [nodes |-> IF Bit(str, 0)
                    THEN [nodes EXCEPT ![prev].oChild = newNode, ![prev].oPfx = str]
                    ELSE [nodes EXCEPT ![prev].zChild = newNode, ![prev].zPfx = str],
          panic |-> FALSE]
    ELSE LET one == Bit(str, 0)
             nPfx == IF one THEN nodes[n].oPfx ELSE nodes[n].zPfx
             nChild == IF one THEN nodes[n].oChild ELSE nodes[n].zChild
             l == nPfx.BitLen
             cpl == CommPfxLen(nPfx, str)
         IN  IF cpl = l
             THEN InsertLoop(nodes, nChild, n, Substr(str, l, str.BitLen - l),
                             data, newNode)
             ELSE LET newNodePfx == Substr(str, cpl, str.BitLen - cpl)
                      newParent == Len(nodes) + 1
                      oldPfx == Substr(nPfx, cpl, l - cpl)
                      hasNew == newNodePfx.BitLen > 0
                      parentNode ==
                          IF Bit(nPfx, cpl)
                          THEN [zChild |-> IF hasNew THEN newNode ELSE NilPtr,
                                zPfx |-> IF hasNew THEN newNodePfx ELSE EmptyBitStr,
                                oChild |-> nChild, oPfx |-> oldPfx,
                                data |-> IF hasNew THEN NilData ELSE data]
                          ELSE [oChild |-> IF hasNew THEN newNode ELSE NilPtr,
                                oPfx |-> IF hasNew THEN newNodePfx ELSE EmptyBitStr,
                                zChild |-> nChild, zPfx |-> oldPfx,
                                data |-> IF hasNew THEN NilData ELSE data]
                      grown == Append(nodes, parentNode)
                  IN  [nodes |-> IF one
                                 THEN [grown EXCEPT ![n].oPfx = Substr(nPfx, 0, cpl),
                                                    ![n].oChild = newParent]
                                 ELSE [grown EXCEPT ![n].zPfx = Substr(nPfx, 0, cpl),
                                                    ![n].zChild = newParent],
                       panic |-> FALSE]

Insert(nodes, str, data) ==
    LET withNew == Append(nodes, NewBrtNode(data))
    IN  InsertLoop(withNew, RootPtr, NilPtr, str, data, Len(withNew))

(***************************************************************************)
(* IP patterns.  A pattern string is given by its parse: a CIDR (address   *)
(* bytes and prefix length) or a bare IP; addresses are sequences of 4 or  *)
(* 16 bytes.                                                               *)
(***************************************************************************)
V4InV6Prefix == <<0, 0, 0, 0, 0, 0, 0, 0, 0, 0, 255, 255>>

\* net.IP.To16
To16(ip) == IF Len(ip) = 4 THEN V4InV6Prefix \o ip ELSE ip

\* net.IP.Mask with net.CIDRMask(ones, 8 * Len(ip)), as net.ParseCIDR applies it
MaskIP(ip, ones) ==
    [i \in 1..Len(ip) |->
        LET left == ones - 8 * (i - 1)
            keep == IF left >= 8 THEN 8 ELSE IF left <= 0 THEN 0 ELSE left
        IN  (ip[i] \div (2 ^ (8 - keep))) * (2 ^ (8 - keep))]

Cidr(ip, ones) == [cidr |-> TRUE, ip |-> ip, ones |-> ones]

BareIP(ip) == [cidr |-> FALSE, ip |-> ip, ones |-> 8 * Len(ip)]

\* the *net.IPNet newIPMatcher works with: the result of net.ParseCIDR or,
\* for a bare IP, IPNet{ip.To16(), CIDRMask(128, 128)}
IPNetOf(pattern) ==
    IF pattern.cidr
    THEN [IP |-> MaskIP(pattern.ip, pattern.ones),
          ones |-> pattern.ones, bits |-> 8 * Len(pattern.ip)]
    ELSE [IP |-> To16(pattern.ip), ones |-> 128, bits |-> 128]

\* the bit string newIPMatcher inserts for a pattern
PatternKey(pattern) ==
    LET ipNet == IPNetOf(pattern)
        patternLen == IF ipNet.bits < 128 THEN ipNet.ones + 128 - ipNet.bits
                      ELSE ipNet.ones
    IN  bitStrFromBytes(To16(ipNet.IP), patternLen)

\* the inner loop of newIPMatcher over the patterns of one rule
RECURSIVE InsertPatterns(_, _, _, _)
InsertPatterns(nodes, name, patterns, i) ==
    IF i > Len(patterns) THEN [nodes |-> nodes, panic |-> FALSE]
    ELSE LET r == Insert(nodes, PatternKey(patterns[i]), name)
         IN  IF r.panic THEN r
             ELSE InsertPatterns(r.nodes, name, patterns, i + 1)

\* ipMatcher.Match
IPMatch(nodes, ip) ==
    LET query == bitStrFromBytes(To16(ip), 128)
        rule == FindPrefix(nodes, query)
    IN  [rule |-> rule, valid |-> rule # NilData]

defaultRuleName == "default"

NoUpstreams == <<>>

\* RuleMatcher.MatchIP; ruleToUpstreams is a function from the rule names
MatchIP(nodes, ruleToUpstreams, ip) ==
    LET m == IPMatch(nodes, ip)
    IN  IF m.valid THEN [rule |-> m.rule, upstreams |-> ruleToUpstreams[m.rule]]
        ELSE IF defaultRuleName \in DOMAIN ruleToUpstreams
        THEN [rule |-> defaultRuleName,
              upstreams |-> ruleToUpstreams[defaultRuleName]]
        ELSE [rule |-> "", upstreams |-> NoUpstreams]

(***************************************************************************)
(* The rule configurations the matcher is built from: a pool of rules, of  *)
(* which a configuration takes a non-empty subset, with or without the     *)
(* default rule.                                                           *)
(***************************************************************************)
RulePool ==
    [r1 |-> [IPs |-> <<Cidr(<<10, 0, 0, 0>>, 9)>>, Upstreams |-> <<"u1">>],
     r2 |-> [IPs |-> <<Cidr(<<10, 128, 0, 0>>, 9)>>, Upstreams |-> <<"u2">>],
     r3 |-> [IPs |-> <<Cidr(<<10, 0, 0, 0>>, 8), BareIP(<<10, 0, 1, 1>>)>>,
             Upstreams |-> <<"u1", "u2">>],
     r4 |-> [IPs |-> <<Cidr(<<10, 0, 1, 128>>, 25)>>, Upstreams |-> <<>>],
     r5 |-> [IPs |-> <<Cidr(<<32, 1, 13, 184, 0, 0, 0, 0,
                              0, 0, 0, 0, 0, 0, 0, 0>>, 32)>>,
             Upstreams |-> <<"u2">>]]

DefaultRule == [IPs |-> <<>>, Upstreams |-> <<"u1">>]

QueryIPs ==
    {<<10, 0, 1, 200>>, <<10, 0, 1, 1>>, <<10, 0, 1, 2>>, <<10, 0, 9, 5>>,
     <<10, 200, 0, 1>>, <<11, 0, 0, 1>>,
     <<32, 1, 13, 184, 0, 0, 0, 0, 0, 0, 0, 0, 0, 0, 0, 1>>}

NoQuery == <<>>

NoResult == [rule |-> "none", upstreams |-> NoUpstreams]

VARIABLES
    mConfig,      \* the rule configuration NewRuleMatcher was given
    brt,          \* ipMatcher.brt
    visited,      \* the rules newIPMatcher's loop has been through
    keys,         \* the (bit string, payload) pairs handed to Insert, in order
    panicked,     \* Insert panicked
    lastQuery,    \* the IP of the last MatchIP call
    lastResult    \* what that call returned

matcherVars == <<mConfig, brt, visited, keys, panicked, lastQuery, lastResult>>

Conns == {"down", "up"}

\* a pump is named by its source; its destination is the other connection
Other(c) == IF c = "down" THEN "up" ELSE "down"

\* the first byte value the peer of a connection sends
FirstByte(c) == IF c = "down" THEN 1 ELSE 11

Reply(type) == [kind |-> "reply", v |-> type]

Data(b) == [kind |-> "data", v |-> b]

VARIABLES
    req,           \* the target address of the ProxyRequest
    pc,            \* where processOneRequest (and doRelay in it) stands
    matched,       \* what MatchIP or MatchDomain returned for the target
    ruleName,      \* ruleName as the matcher returned it
    upstreams,     \* upstreams: the matcher's, then the candidate list
    selected,      \* the upstream whose Request is called ("" when none)
    successCalls,  \* the number of calls of req.Success
    failCalls,     \* the number of calls of req.Fail
    failKind,      \* ErrType of the error given to Fail
    ctxDone,       \* the context given to processOneRequest is cancelled
    relayCtxDone,  \* relayCtx is done
    closed,        \* per connection: Close was called on it on this side
    broken,        \* per connection: it fails reads and writes
    peerEOF,       \* per connection: the peer closed its sending side
    inbox,         \* per connection: the bytes that arrived and are unread
    peerSent,      \* per connection: the number of bytes the peer sent
    written,       \* per connection: what was written to it, in order
    pumpPc,        \* per pump: "idle", "read", "write" or "done"
    pumpBuf,       \* per pump: buf[:nr], read and not yet written
    nread,         \* per pump: the bytes its Reads returned, in order
    pumpEnd        \* per pump: how relay classified its end

relayVars ==
    <<req, pc, matched, ruleName, upstreams, selected, successCalls, failCalls,
      failKind, ctxDone, relayCtxDone, closed, broken, peerEOF, inbox,
      peerSent, written, pumpPc, pumpBuf, nread, pumpEnd>>

VARIABLES
    server,        \* SOCKS5Server: simplified, and whether checkUser is set
    client,        \* the peer: a SOCKS5Client with its fields, or a raw peer
    c2s,           \* the bytes the server's conn holds unread
    s2c,           \* the bytes the client's conn holds unread
    cliClosed,     \* the client closed its conn
    srvClosed,     \* the server closed cli.conn
    netDown,       \* the connection fails writes, and reads of absent bytes
    sPc,           \* where handshake stands: the ReadPacket it is in
    cPc,           \* where doRequest stands: the ReadPacket it is in
    helloPkt,      \* the socksHello that handshake read
    authPkt,       \* the socksUserPassReq that authUser read
    targetAddr,    \* cli.targetAddr
    srvWrites,     \* what the server wrote to cli.conn, one entry per Write
    checked,       \* the calls of checkUser: arguments and result
    emitted,       \* cli was sent on reqCh
    rawLeft,       \* the bytes a raw peer has still to send
    cResult,       \* what Request returned: -1 not yet, 0 nil, else ErrType
    reqPkt,        \* the socksReqResp that handshake read, and how it ended
    srvCall,       \* what the receiver of reqCh called: Success or Fail
    cBound         \* the bound address Request returned

socksVars ==
    <<server, client, c2s, s2c, cliClosed, srvClosed, netDown, sPc, cPc,
      helloPkt, authPkt, targetAddr, srvWrites, checked, emitted, rawLeft,
      cResult, reqPkt, srvCall, cBound>>

NilAddr == [type |-> "nil", ip |-> <<>>, name |-> <<>>, port |-> 0]

NoHello == [read |-> FALSE, Methods |-> <<>>]

NoAuthPkt == [read |-> FALSE, Username |-> <<>>, Password |-> <<>>]

NoReqPkt == [st |-> "none", Type |-> 0, Addr |-> NilAddr]

NoCall == [fn |-> "none", errType |-> 0, addr |-> NilAddr]

\* the SOCKS variables when no SOCKS connection is modelled
SocksIdle ==
    /\ server = [simplified |-> FALSE, checkUser |-> FALSE]
    /\ client = [kind |-> "none", Simplified |-> FALSE, Username |-> <<>>,
                 Password |-> <<>>, addr |-> NilAddr]
    /\ c2s = <<>>
    /\ s2c = <<>>
    /\ cliClosed = FALSE
    /\ srvClosed = FALSE
    /\ netDown = FALSE
    /\ sPc = "idle"
    /\ cPc = "idle"
    /\ helloPkt = NoHello
    /\ authPkt = NoAuthPkt
    /\ targetAddr = NilAddr
    /\ srvWrites = <<>>
    /\ checked = <<>>
    /\ emitted = FALSE
    /\ rawLeft = <<>>
    /\ cResult = -1
    /\ reqPkt = NoReqPkt
    /\ srvCall = NoCall
    /\ cBound = NilAddr

(***************************************************************************)
(* The packets of the SOCKS5 codec, written and read back                  *)
(***************************************************************************)
VARIABLES
    packet,        \* the packet WritePacket is called on
    wire,          \* the bytes WritePacket wrote
    reader,        \* the bytes not yet read: the written ones, then others
    newPkt,        \* the packet ReadPacket filled in, and how it ended
    codecPc        \* "new", "written", "writeErr", "read"

codecVars == <<packet, wire, reader, newPkt, codecPc>>

NoPacket ==
    [kind |-> "none", Methods |-> <<>>, Method |-> 0, Username |-> <<>>,
     Password |-> <<>>, Status |-> FALSE, Type |-> 0, Addr |-> NilAddr]

NoNewPkt == [st |-> "none", pkt |-> NoPacket, used |-> 0]

\* the codec variables when no packet is modelled
CodecIdle ==
    /\ packet = NoPacket
    /\ wire = <<>>
    /\ reader = <<>>
    /\ newPkt = NoNewPkt
    /\ codecPc = "idle"

(***************************************************************************)
(* preConnMgr: the pool of preliminary connections of one target           *)
(***************************************************************************)
VARIABLES
    pool,          \* the ring buffer: cap(pool) slots, 0 is nil
    poolCap,
    poolBegin,
    poolNext,
    poolMtx,       \* SpinMutex.locked: 0 unlocked, 1 locked
    preConnMtx,    \* 1 while a runPreConn holds it
    dialPc,        \* per caller of Dial: its position
    dialConn,      \* per caller of Dial: its conn, 0 is nil
    epochPc,       \* the position of the ticker goroutine in Epoch
    connsToDrop,   \* Epoch's connsToDrop
    epochPoolSize, \* Epoch's poolSize
    runWaiting,    \* per expectedPoolSize: the runPreConn goroutines that
                   \* have not yet got preConnMtx
    runPc,         \* the position of the runPreConn that holds preConnMtx
    runExpected,   \* its expectedPoolSize
    runI,          \* its i
    runConn,       \* the conn it dialled and has not pushed yet
    nextConn,      \* the connections the transport has made so far
    droppedConns,  \* the connections Epoch took out of the pool to close
    handedConns,   \* the pooled connections Dial returned, in order
    poolPanic,     \* a goroutine panicked
    dials,         \* the calls of Dial so far
    epochs,        \* the calls of Epoch so far
    shouldAfter    \* Epoch's shouldAfter: the youngest connection stamped at
                   \* or before now - preConnLifetime, 0 when there is none

poolVars ==
    <<pool, poolCap, poolBegin, poolNext, poolMtx, preConnMtx, dialPc,
      dialConn, epochPc, connsToDrop, epochPoolSize, runWaiting, runPc,
      runExpected, runI, runConn, nextConn, droppedConns, handedConns,
      poolPanic, dials, epochs, shouldAfter>>

\* the callers of Dial
Dialers == {"d1", "d2"}

\* the pool variables when no pool is modelled
PoolIdle ==
    /\ pool = <<>>
    /\ poolCap = 0
    /\ poolBegin = 0
    /\ poolNext = 0
    /\ poolMtx = 0
    /\ preConnMtx = 0
    /\ dialPc = [d \in Dialers |-> "none"]
    /\ dialConn = [d \in Dialers |-> 0]
    /\ epochPc = "none"
    /\ connsToDrop = <<>>
    /\ epochPoolSize = 0
    /\ runWaiting = <<>>
    /\ runPc = "none"
    /\ runExpected = 0
    /\ runI = 0
    /\ runConn = 0
    /\ nextConn = 0
    /\ droppedConns = {}
    /\ handedConns = <<>>
    /\ poolPanic = FALSE
    /\ dials = 0
    /\ epochs = 0
    /\ shouldAfter = 0

(***************************************************************************)
(* KCPTransport: one kcpConnWrapper, its peer and the keepalive manager    *)
(***************************************************************************)
VARIABLES
    keepAlive,      \* t.conns != nil: both keepalive options were given
    conns,          \* t.conns: the wrappers in the keepalive list
    kcpInterval,    \* t.keepAliveInterval, in time units
    kcpTimeout,     \* t.keepAliveTimeout, in time units
    session,        \* the wrapper's UDPSession: "none", "open", "closed"
    lastSend,       \* 0, or 1 + the time since the stored time.Now()
    lastBlockStart, \* 0, or 1 + the time since the stored time.Now()
    rdDataLeft,
    inbound,        \* the bytes the session holds for the next reads
    kcpPeer,        \* the other end: "none", "open", "closed", "lost"
    peerWritten,    \* the bytes the peer's application gave to Write
    peerFrames,     \* the frames the peer wrote so far
    readPc,         \* Read: "idle", "header", "length", "data"
    readLen,        \* len(b) of the Read in progress
    readRes,        \* what the last Read returned
    delivered,      \* the bytes the Reads returned, in order
    sawEOF,         \* a Read returned io.EOF
    writePc,        \* the application's Write: "idle", "stored"
    closePc,        \* per caller of Close: its position
    kaPc,           \* the goroutines in sendKeepAlive, per position
    kcpDialPc,      \* Dial: "none", "idle", "waiting", "cancelled" (waiting
                    \* with its context done), "conn", "err", "ctxErr"
    dialGoPc,       \* Dial's goroutine: "none", "dialling", "done"
    evicted,        \* the manager removed the wrapper for its timeout
    tickIn,         \* time until the manager's ticker fires
    peerTickIn,     \* time until the ticker of the peer's manager fires
    peerLastSend,   \* lastSend of the peer's wrapper
    idleFor         \* the time since the peer's application wrote last

kcpVars ==
    <<keepAlive, conns, kcpInterval, kcpTimeout, session, lastSend,
      lastBlockStart, rdDataLeft, inbound, kcpPeer, peerWritten, peerFrames, readPc, readLen,
      readRes, delivered, sawEOF, writePc, closePc, kaPc,
      kcpDialPc, dialGoPc, evicted, tickIn, peerTickIn,
      peerLastSend, idleFor>>

\* who calls kcpConnWrapper.Close: the application and the go statement of
\* the manager (sendKeepAlive's own call is a position of kaPc)
Closers == {"app", "manager"}

\* the KCP variables when no KCP connection is modelled
KcpIdle ==
    /\ keepAlive = FALSE
    /\ conns = {}
    /\ kcpInterval = 0
    /\ kcpTimeout = 0
    /\ session = "none"
    /\ lastSend = 0
    /\ lastBlockStart = 0
    /\ rdDataLeft = 0
    /\ inbound = <<>>
    /\ kcpPeer = "none"
    /\ peerWritten = <<>>
    /\ peerFrames = 0
    /\ readPc = "none"
    /\ readLen = 0
    /\ readRes = "none"
    /\ delivered = <<>>
    /\ sawEOF = FALSE
    /\ writePc = "none"
    /\ closePc = [w \in Closers |-> "none"]
    /\ kaPc = <<>>
    /\ kcpDialPc = "none"
    /\ dialGoPc = "none"
    /\ evicted = FALSE
    /\ tickIn = 0
    /\ peerTickIn = 0
    /\ peerLastSend = 0
    /\ idleFor = 0

\* ---- Thestral.Run and the SOCKS5 servers it starts (src/app.go, src/socks5.go)

VARIABLES
    appCtxDone,     \* the ctx Run was given is cancelled
    appRunPc,       \* Run: "idle", "loop", "wait", "nil" or "err" (returned)
    dsPending,      \* the downstreams the range loop of Run has not reached
    wg,             \* the counter of the sync.WaitGroup of Run
    procPc,         \* per downstream, the goroutine Run starts for it
    isRunning,      \* per downstream, SOCKS5Server.isRunning
    listener,       \* per downstream, s.listener: "nil", "open", "closed"
    acceptPc,       \* per downstream, the accept goroutine of Start
    reqCh,          \* per downstream, the requests s.reqCh buffers
    cliPc,          \* per client, the task that holds its connection
    cliDs,          \* per client, the downstream that accepted it
    cliConn         \* per client, cli.conn: "none", "open", "closed"

appVars ==
    <<appCtxDone, appRunPc, dsPending, wg, procPc, isRunning, listener,
      acceptPc, reqCh, cliPc, cliDs, cliConn>>

\* t.downstreams of the model: two servers
Downstreams == {"ds1", "ds2"}

MaxClients == 2

ClientIds == 1..MaxClients

\* the application is not modelled
AppIdle ==
    /\ appCtxDone = FALSE
    /\ appRunPc = "none"
    /\ dsPending = {}
    /\ wg = 0
    /\ procPc = <<>>
    /\ isRunning = <<>>
    /\ listener = <<>>
    /\ acceptPc = <<>>
    /\ reqCh = <<>>
    /\ cliPc = <<>>
    /\ cliDs = <<>>
    /\ cliConn = <<>>

\* ---- HTTPTunnelClient.Request (src/http_tunnel.go)

VARIABLES
    httpReply,      \* what the proxy server answers: heading, headers, end
    httpPc,         \* where Request and its goroutine stand
    httpErr,        \* the *ProxyError Request has or returns
    httpConn,       \* the connection to the proxy server
    httpLeft        \* the header lines of the reply not read yet

httpVars == <<httpReply, httpPc, httpErr, httpConn, httpLeft>>

\* no HTTP tunnel is modelled
HttpIdle ==
    /\ httpReply = <<>>
    /\ httpPc = "none"
    /\ httpErr = [is |-> "none", ErrType |-> 0]
    /\ httpConn = "none"
    /\ httpLeft = 0

\* ---- SOCKS5Client.Request and its handshake goroutine (src/socks5.go)

VARIABLES
    rqCtx,          \* ctx: whether it has a deadline, and the deadline
    rqCancelled,    \* ctx was cancelled
    rqNow,          \* the clock, in milliseconds
    rqPc,           \* where Request stands
    rqTask,         \* where the goroutine started by Request stands
    rqTaskErr,      \* the *ProxyError doRequest returned: 0 is nil
    rqErrCh,        \* errCh, a channel with a buffer of 1
    rqConn,         \* the connection Dial returned
    rqConnDdl,      \* the deadline set on the connection
    rqRet           \* what Request returned: a stream or none, an ErrType or 0

rqVars ==
    <<rqCtx, rqCancelled, rqNow, rqPc, rqTask, rqTaskErr, rqErrCh, rqConn,
      rqConnDdl, rqRet>>

\* time.Time{}: no deadline
NoDeadline == -1

\* no call of SOCKS5Client.Request is modelled
RqIdle ==
    /\ rqCtx = [hasDDL |-> FALSE, ddl |-> 0]
    /\ rqCancelled = FALSE
    /\ rqNow = 0
    /\ rqPc = "none"
    /\ rqTask = "none"
    /\ rqTaskErr = 0
    /\ rqErrCh = <<>>
    /\ rqConn = "none"
    /\ rqConnDdl = NoDeadline
    /\ rqRet = [stream |-> FALSE, err |-> 0]

\* ---- newDomainMatcher (src/unnamed/part_001)

VARIABLES
    dmConfig,       \* config: per rule name its Domains and IPs
    dmResult        \* what NewRuleMatcher returned, and the regexp it built

dmVars == <<dmConfig, dmResult>>

\* NewRuleMatcher is not modelled
DmIdle ==
    /\ dmConfig = <<>>
    /\ dmResult = [st |-> "none", buf |-> <<>>]

\* ---- bitStrFromBytes on its own (src/bin_radix_tree.go)

VARIABLES
    bsBytes,        \* b
    bsLength,       \* length
    bsResult        \* the bitStr returned, or none

bsVars == <<bsBytes, bsLength, bsResult>>

\* bitStrFromBytes is not modelled
BsIdle ==
    /\ bsBytes = <<>>
    /\ bsLength = 0
    /\ bsResult = [st |-> "none", Words |-> <<>>, BitLen |-> 0]

\* ---- relayHalf writing to a kcpConnWrapper (src/app.go, KCP transport)

VARIABLES
    kwSrc,          \* the bytes src has still to give
    kwPc,           \* where the loop of relayHalf is
    kwBuf,          \* buf[:nr] of the last src.Read
    kwRet,          \* nw: what the last dst.Write returned
    kwErr,          \* err of relayHalf
    kwN,            \* n of relayHalf
    kwRead,         \* the bytes read from src so far
    kwWrites,       \* the calls of dst.Write that returned no error
    kwSession       \* the bytes given to UDPSession.Write

kwVars ==
    <<kwSrc, kwPc, kwBuf, kwRet, kwErr, kwN, kwRead, kwWrites, kwSession>>

\* no relay over KCP is modelled
KwIdle ==
    /\ kwSrc = <<>>
    /\ kwPc = "none"
    /\ kwBuf = <<>>
    /\ kwRet = 0
    /\ kwErr = "nil"
    /\ kwN = 0
    /\ kwRead = 0
    /\ kwWrites = 0
    /\ kwSession = <<>>

\* the variables of the parts that follow Request
afterRqVars == <<dmVars, bsVars, kwVars>>

AfterRqIdle == DmIdle /\ BsIdle /\ KwIdle

\* the variables of the parts that follow the HTTP tunnel
afterHttpVars == <<rqVars, afterRqVars>>

AfterHttpIdle == RqIdle /\ AfterRqIdle

\* the variables of the parts that follow the application
afterAppVars == <<httpVars, afterHttpVars>>

AfterAppIdle == HttpIdle /\ AfterHttpIdle

\* the variables of the parts that follow the KCP transport
afterKcpVars == <<appVars, afterAppVars>>

AfterKcpIdle == AppIdle /\ AfterAppIdle

\* the variables of the parts that follow the pool
restVars == <<kcpVars, afterKcpVars>>

RestIdle == KcpIdle /\ AfterKcpIdle

vars ==
    <<matcherVars, relayVars, socksVars, codecVars, poolVars, restVars>>

\* the dispatcher's variables before any request
RelayIdle ==
    /\ pc = "match"
    /\ matched = NoResult
    /\ ruleName = ""
    /\ upstreams = NoUpstreams
    /\ selected = ""
    /\ successCalls = 0
    /\ failCalls = 0
    /\ failKind = 0
    /\ ctxDone = FALSE
    /\ relayCtxDone = FALSE
    /\ closed = [c \in Conns |-> FALSE]
    /\ broken = [c \in Conns |-> FALSE]
    /\ peerEOF = [c \in Conns |-> FALSE]
    /\ inbox = [c \in Conns |-> <<>>]
    /\ peerSent = [c \in Conns |-> 0]
    /\ written = [c \in Conns |-> <<>>]
    /\ pumpPc = [c \in Conns |-> "idle"]
    /\ pumpBuf = [c \in Conns |-> <<>>]
    /\ nread = [c \in Conns |-> <<>>]
    /\ pumpEnd = [c \in Conns |-> "running"]

NoReq == [type |-> "none", ip |-> <<>>, name |-> ""]

\* the configurations: a function from rule names to rules
MatcherConfigs ==
    {[n \in names \cup dflt |->
        IF n = defaultRuleName THEN DefaultRule ELSE RulePool[n]] :
     names \in (SUBSET DOMAIN RulePool) \ {{}},
     dflt \in {{}, {defaultRuleName}}}

\* NewRuleMatcher's first loop: ruleToUpstreams, and ipRules without the default
RuleToUpstreams(config) == [n \in DOMAIN config |-> config[n].Upstreams]

IPRuleNames(config) == DOMAIN config \ {defaultRuleName}

MatcherInit ==
    /\ mConfig \in MatcherConfigs
    /\ brt = EmptyBrt
    /\ visited = {}
    /\ keys = <<>>
    /\ panicked = FALSE
    /\ lastQuery = NoQuery
    /\ lastResult = NoResult
    /\ req = NoReq
    /\ RelayIdle
    /\ SocksIdle
    /\ CodecIdle
    /\ PoolIdle
    /\ RestIdle

\* one iteration of newIPMatcher's loop over the rules (a Go map: any order)
NewIPMatcherRule(name) ==
    /\ ~panicked
    /\ name \in IPRuleNames(mConfig) \ visited
    /\ LET patterns == mConfig[name].IPs
           r == InsertPatterns(brt, name, patterns, 1)
       IN  /\ brt' = r.nodes
           /\ panicked' = r.panic
           /\ keys' = keys \o [i \in 1..Len(patterns) |->
                                  [str |-> PatternKey(patterns[i]), data |-> name]]
    /\ visited' = visited \cup {name}
    /\ UNCHANGED <<mConfig, lastQuery, lastResult, relayVars, socksVars,
                   codecVars, poolVars, restVars>>

MatcherBuilt == ~panicked /\ visited = IPRuleNames(mConfig)

\* a call of RuleMatcher.MatchIP on the built matcher
CallMatchIP(ip) ==
    /\ MatcherBuilt
    /\ lastQuery' = ip
    /\ lastResult' = MatchIP(brt, RuleToUpstreams(mConfig), ip)
    /\ UNCHANGED <<mConfig, brt, visited, keys, panicked, relayVars, socksVars,
                   codecVars, poolVars, restVars>>

MatcherNext ==
    \/ \E name \in DOMAIN RulePool : NewIPMatcherRule(name)
    \/ \E ip \in QueryIPs : CallMatchIP(ip)

SpecMatcher == MatcherInit /\ [][MatcherNext]_vars

(***************************************************************************)
(* What the matcher is to compute: the rule of the longest configured      *)
(* prefix that contains the address, on the bytes of the addresses.        *)
(***************************************************************************)
BitOfBytes(b, i) == (b[i \div 8 + 1] \div (2 ^ (7 - (i % 8)))) % 2

PrefixLen(pattern) ==
    IF pattern.cidr THEN pattern.ones + 128 - 8 * Len(pattern.ip) ELSE 128

Contains(pattern, ip) ==
    \A i \in 0..(PrefixLen(pattern) - 1) :
        BitOfBytes(To16(pattern.ip), i) = BitOfBytes(To16(ip), i)

ConfiguredPatterns(config) ==
    UNION {{[rule |-> n, pattern |-> config[n].IPs[i]] :
               i \in 1..Len(config[n].IPs)} : n \in IPRuleNames(config)}

\* the matching entries of the longest prefix length
LongestMatches(config, ip) ==
    LET hits == {e \in ConfiguredPatterns(config) : Contains(e.pattern, ip)}
    IN  {e \in hits : \A f \in hits : PrefixLen(f.pattern) <= PrefixLen(e.pattern)}

ExpectedMatch(config, ip) ==
    LET best == LongestMatches(config, ip)
    IN  IF best # {}
        THEN LET e == CHOOSE e \in best : TRUE
             IN  [rule |-> e.rule, upstreams |-> config[e.rule].Upstreams]
        ELSE IF defaultRuleName \in DOMAIN config
        THEN [rule |-> defaultRuleName,
              upstreams |-> config[defaultRuleName].Upstreams]
        ELSE [rule |-> "", upstreams |-> NoUpstreams]

\* C7: every set of IP patterns loads into the matcher, and MatchIP returns
\* the rule of the longest configured prefix that contains the IP, else the
\* default rule when there is one, else no match (empty name, no upstreams).
C7_MatchIPLongestPrefix ==
    /\ ~panicked
    /\ lastQuery # NoQuery => lastResult = ExpectedMatch(mConfig, lastQuery)

RECURSIVE InsertAll(_, _, _)
InsertAll(nodes, ks, i) ==
    IF i > Len(ks) THEN [nodes |-> nodes, panic |-> FALSE]
    ELSE LET r == Insert(nodes, ks[i].str, ks[i].data)
         IN  IF r.panic THEN r ELSE InsertAll(r.nodes, ks, i + 1)

Orders(n) == {f \in [1..n -> 1..n] : \A i, j \in 1..n : f[i] = f[j] => i = j}

\* C8: insertion is order-independent: the (prefix, payload) pairs given to
\* Insert so far, inserted into an empty trie in any other order, complete
\* as well and give the same FindPrefix result for every query.
C8_InsertOrderIndependent ==
    /\ ~panicked
    /\ \A f \in Orders(Len(keys)) :
         LET t == InsertAll(EmptyBrt, [i \in 1..Len(keys) |-> keys[f[i]]], 1)
         IN  /\ ~t.panic
             /\ \A ip \in QueryIPs :
                  FindPrefix(t.nodes, bitStrFromBytes(To16(ip), 128))
                    = FindPrefix(brt, bitStrFromBytes(To16(ip), 128))

(***************************************************************************)
(* The dispatcher and the relay engine: one request going through          *)
(* processOneRequest, doRelay and the two relayHalf pumps, on the          *)
(* downstream connection of a socks5Request and the upstream connection    *)
(* the selected client returned.                                           *)
(***************************************************************************)
ProxyGeneralErr == 1
ProxyNotAllowed == 2
ProxyConnectFailed == 5
ProxyCmdUnsupported == 7
ProxyAddrUnsupported == 8
socksSuccess == 0

\* the largest number of bytes the client sends on the downstream
\* connection, and the server on the upstream connection
MaxDownBytes == 1

MaxUpBytes == 2

\* the largest number of bytes one Read returns (relayBufferSize in the code)
MaxChunk == 2

\* Thestral.upstreamNames: the keys of config.Upstreams
upstreamNames == <<"u1", "u2">>

\* the rules of the application's configuration; the default rule is
\* absent, has an upstream, or has none
AppRules ==
    [direct |-> [IPs |-> <<Cidr(<<10, 0, 0, 0>>, 8)>>, Domains |-> {},
                 Upstreams |-> <<"u1", "u2">>],
     reject |-> [IPs |-> <<BareIP(<<10, 0, 1, 1>>)>>,
                 Domains |-> {"will.be.rejected"}, Upstreams |-> <<>>]]

AppDefaults ==
    {[IPs |-> <<>>, Domains |-> {}, Upstreams |-> <<"u2">>],
     [IPs |-> <<>>, Domains |-> {}, Upstreams |-> <<>>]}

AppConfigs ==
    {AppRules} \cup
    {[n \in DOMAIN AppRules \cup {defaultRuleName} |->
        IF n = defaultRuleName THEN d ELSE AppRules[n]] : d \in AppDefaults}

\* newIPMatcher: the loop over the rules, in the order the map yields them
RECURSIVE newIPMatcher(_, _, _)
newIPMatcher(config, names, nodes) ==
    IF names = {} THEN [nodes |-> nodes, panic |-> FALSE]
    ELSE LET name == CHOOSE n \in names : TRUE
             r == InsertPatterns(nodes, name, config[name].IPs, 1)
         IN  IF r.panic THEN r
             ELSE newIPMatcher(config, names \ {name}, r.nodes)

\* the trie of the application's matcher; the default rule has no patterns,
\* so it is the same for every configuration of AppConfigs
AppBrt == newIPMatcher(AppRules, DOMAIN AppRules, EmptyBrt).nodes

\* domainMatcher.Match for patterns that are literal names: the rule one of
\* whose anchored patterns matches the whole domain
DomainMatch(config, domain) ==
    LET hits == {n \in IPRuleNames(config) : domain \in config[n].Domains}
    IN  IF hits # {} THEN [rule |-> CHOOSE n \in hits : TRUE, valid |-> TRUE]
        ELSE [rule |-> "", valid |-> FALSE]

\* RuleMatcher.MatchDomain
MatchDomain(config, domain) ==
    LET m == DomainMatch(config, domain)
        ruleToUpstreams == RuleToUpstreams(config)
    IN  IF m.valid THEN [rule |-> m.rule, upstreams |-> ruleToUpstreams[m.rule]]
        ELSE IF defaultRuleName \in DOMAIN ruleToUpstreams
        THEN [rule |-> defaultRuleName,
              upstreams |-> ruleToUpstreams[defaultRuleName]]
        ELSE [rule |-> "", upstreams |-> NoUpstreams]

\* the target addresses of the requests
Targets ==
    {[type |-> "TCP4", ip |-> <<10, 0, 1, 2>>, name |-> ""],
     [type |-> "TCP4", ip |-> <<10, 0, 1, 1>>, name |-> ""],
     [type |-> "TCP6", ip |-> <<32, 1, 13, 184, 0, 0, 0, 0,
                                0, 0, 0, 0, 0, 0, 0, 1>>, name |-> ""],
     [type |-> "Domain", ip |-> <<>>, name |-> "will.be.rejected"],
     [type |-> "Unknown", ip |-> <<>>, name |-> ""]}

\* the application after NewThestralApp, with one accepted request
Init ==
    /\ mConfig \in AppConfigs
    /\ brt = AppBrt
    /\ visited = IPRuleNames(mConfig)
    /\ keys = <<>>
    /\ panicked = FALSE
    /\ lastQuery = NoQuery
    /\ lastResult = NoResult
    /\ req \in Targets
    /\ RelayIdle
    /\ SocksIdle
    /\ CodecIdle
    /\ PoolIdle
    /\ RestIdle

\* what a write of item x to connection c leaves in written
WriteTo(c, items) ==
    IF closed[c] \/ broken[c] THEN written
    ELSE [written EXCEPT ![c] = written[c] \o items]

\* socks5Request.Fail: write the reply with the error type, close the conn
Fail(kind) ==
    /\ failCalls' = failCalls + 1
    /\ failKind' = kind
    /\ written' = WriteTo("down", <<Reply(kind)>>)
    /\ closed' = [closed EXCEPT !["down"] = TRUE]

\* processOneRequest: match the target against the rule set
MatchRule ==
    /\ pc = "match"
    /\ IF req.type \in {"TCP4", "TCP6"}
       THEN LET m == MatchIP(brt, RuleToUpstreams(mConfig), req.ip)
            IN  /\ matched' = m
                /\ ruleName' = m.rule
                /\ upstreams' = m.upstreams
                /\ pc' = "select"
                /\ UNCHANGED <<failCalls, failKind, written, closed>>
       ELSE IF req.type = "Domain"
       THEN LET m == MatchDomain(mConfig, req.name)
            IN  /\ matched' = m
                /\ ruleName' = m.rule
                /\ upstreams' = m.upstreams
                /\ pc' = "select"
                /\ UNCHANGED <<failCalls, failKind, written, closed>>
       ELSE /\ Fail(ProxyAddrUnsupported)
            /\ pc' = "returned"
            /\ UNCHANGED <<matched, ruleName, upstreams>>
    /\ UNCHANGED <<socksVars, matcherVars, codecVars, poolVars, restVars,
                   req, selected, successCalls, ctxDone,
                   relayCtxDone, broken, peerEOF, inbox, peerSent, pumpPc,
                   pumpBuf, nread, pumpEnd>>

\* SelectUpstream with the reject branch lost: an empty upstream list is
\* taken for "no rule matched" and every upstream is allowed
SelectUpstream_EmptyMeansAll ==
    /\ pc = "select"
    /\ IF ruleName = "" \/ Len(upstreams) = 0
       THEN /\ upstreams' = upstreamNames
            /\ \E i \in 1..Len(upstreamNames) : selected' = upstreamNames[i]
       ELSE /\ \E i \in 1..Len(upstreams) : selected' = upstreams[i]
            /\ UNCHANGED upstreams
    /\ pc' = "request"
    /\ UNCHANGED <<socksVars, matcherVars, codecVars, poolVars, restVars,
                   req, matched, ruleName, successCalls, failCalls,
                   failKind, written, closed, ctxDone, relayCtxDone, broken,
                   peerEOF, inbox, peerSent, pumpPc, pumpBuf, nread, pumpEnd>>

\* processOneRequest: select an upstream and call its Request
SelectUpstream ==
    /\ pc = "select"
    /\ IF ruleName = ""
       THEN /\ upstreams' = upstreamNames
            /\ \E i \in 1..Len(upstreamNames) : selected' = upstreamNames[i]
            /\ pc' = "request"
            /\ UNCHANGED <<failCalls, failKind, written, closed>>
       ELSE IF Len(upstreams) = 0
       THEN /\ Fail(ProxyNotAllowed)
            /\ pc' = "returned"
            /\ UNCHANGED <<upstreams, selected>>
       ELSE /\ \E i \in 1..Len(upstreams) : selected' = upstreams[i]
            /\ pc' = "request"
            /\ UNCHANGED <<upstreams, failCalls, failKind, written, closed>>
    /\ UNCHANGED <<socksVars, matcherVars, codecVars, poolVars, restVars,
                   req, matched, ruleName, successCalls, ctxDone,
                   relayCtxDone, broken, peerEOF, inbox, peerSent, pumpPc,
                   pumpBuf, nread, pumpEnd>>

\* RequestFailed without the return after req.Fail: doRelay is entered
RequestFailed_NoReturn(kind) ==
    /\ pc = "request"
    /\ Fail(kind)
    /\ pc' = "doRelay"
    /\ UNCHANGED <<socksVars, matcherVars, codecVars, poolVars, restVars,
                   req, matched, ruleName, upstreams, selected,
                   successCalls, ctxDone, relayCtxDone, broken, peerEOF,
                   inbox, peerSent, pumpPc, pumpBuf, nread, pumpEnd>>

\* upstream.Request returned an error
RequestFailed(kind) ==
    /\ pc = "request"
    /\ Fail(kind)
    /\ pc' = "returned"
    /\ UNCHANGED <<socksVars, matcherVars, codecVars, poolVars, restVars,
                   req, matched, ruleName, upstreams, selected,
                   successCalls, ctxDone, relayCtxDone, broken, peerEOF,
                   inbox, peerSent, pumpPc, pumpBuf, nread, pumpEnd>>

\* upstream.Request returned a connection: doRelay is called
RequestSucceeded ==
    /\ pc = "request"
    /\ pc' = "doRelay"
    /\ UNCHANGED <<socksVars, matcherVars, codecVars, poolVars, restVars,
                   req, matched, ruleName, upstreams, selected,
                   successCalls, failCalls, failKind, ctxDone, relayCtxDone,
                   closed, broken, peerEOF, inbox, peerSent, written, pumpPc,
                   pumpBuf, nread, pumpEnd>>

\* DoRelayStart without the call of req.Success
DoRelayStart_NoSuccess ==
    /\ pc = "doRelay"
    /\ relayCtxDone' = ctxDone
    /\ pumpPc' = [c \in Conns |-> "read"]
    /\ pc' = "waitRelay"
    /\ UNCHANGED <<socksVars, matcherVars, codecVars, poolVars, restVars,
                   req, matched, ruleName, upstreams, selected,
                   successCalls, written, failCalls, failKind, ctxDone, closed,
                   broken, peerEOF, inbox, peerSent, pumpBuf, nread, pumpEnd>>

\* doRelay up to <-relayCtx.Done(): req.Success writes the reply and returns
\* the connection, relayCtx is derived from ctx, the two pumps are started
DoRelayStart ==
    /\ pc = "doRelay"
    /\ successCalls' = successCalls + 1
    /\ written' = WriteTo("down", <<Reply(socksSuccess)>>)
    /\ relayCtxDone' = ctxDone
    /\ pumpPc' = [c \in Conns |-> "read"]
    /\ pc' = "waitRelay"
    /\ UNCHANGED <<socksVars, matcherVars, codecVars, poolVars, restVars,
                   req, matched, ruleName, upstreams, selected, failCalls,
                   failKind, ctxDone, closed, broken, peerEOF, inbox, peerSent,
                   pumpBuf, nread, pumpEnd>>

\* doRelay: relayCtx is done, upRWC.Close()
CloseUp ==
    /\ pc = "waitRelay"
    /\ relayCtxDone
    /\ closed' = [closed EXCEPT !["up"] = TRUE]
    /\ pc' = "closeDown"
    /\ UNCHANGED <<socksVars, matcherVars, codecVars, poolVars, restVars,
                   req, matched, ruleName, upstreams, selected,
                   successCalls, failCalls, failKind, ctxDone, relayCtxDone,
                   broken, peerEOF, inbox, peerSent, written, pumpPc, pumpBuf,
                   nread, pumpEnd>>

\* doRelay: downRWC.Close(), and doRelay and processOneRequest return
CloseDown ==
    /\ pc = "closeDown"
    /\ closed' = [closed EXCEPT !["down"] = TRUE]
    /\ pc' = "returned"
    /\ UNCHANGED <<socksVars, matcherVars, codecVars, poolVars, restVars,
                   req, matched, ruleName, upstreams, selected,
                   successCalls, failCalls, failKind, ctxDone, relayCtxDone,
                   broken, peerEOF, inbox, peerSent, written, pumpPc, pumpBuf,
                   nread, pumpEnd>>

\* the end of a pump: relay classifies the result of relayHalf and the
\* deferred cancelFunc cancels relayCtx
PumpReturns(p, isErr) ==
    /\ pumpPc' = [pumpPc EXCEPT ![p] = "done"]
    /\ pumpEnd' = [pumpEnd EXCEPT ![p] =
                      IF ~isErr THEN "closed"
                      ELSE IF relayCtxDone THEN "ended" ELSE "error"]
    /\ relayCtxDone' = TRUE

\* relayHalf: src.Read returns k bytes and no error
PumpReadData(p, k) ==
    /\ pumpPc[p] = "read"
    /\ ~closed[p] /\ ~broken[p]
    /\ k \in 1..Len(inbox[p])
    /\ k <= MaxChunk
    /\ nread' = [nread EXCEPT ![p] = nread[p] \o SubSeq(inbox[p], 1, k)]
    /\ pumpBuf' = [pumpBuf EXCEPT ![p] = SubSeq(inbox[p], 1, k)]
    /\ inbox' = [inbox EXCEPT ![p] = SubSeq(inbox[p], k + 1, Len(inbox[p]))]
    /\ pumpPc' = [pumpPc EXCEPT ![p] = "write"]
    /\ UNCHANGED <<socksVars, matcherVars, codecVars, poolVars, restVars,
                   req, pc, matched, ruleName, upstreams, selected,
                   successCalls, failCalls, failKind, ctxDone, relayCtxDone,
                   closed, broken, peerEOF, peerSent, written, pumpEnd>>

\* relayHalf: src.Read returns the last bytes of the stream together with
\* io.EOF (as a tls.Conn does when the close_notify follows the data); the
\* else branch turns io.EOF into nil and breaks
PumpReadDataEOF(p) ==
    /\ pumpPc[p] = "read"
    /\ ~closed[p] /\ ~broken[p]
    /\ peerEOF[p]
    /\ Len(inbox[p]) \in 1..MaxChunk
    /\ nread' = [nread EXCEPT ![p] = nread[p] \o inbox[p]]
    /\ inbox' = [inbox EXCEPT ![p] = <<>>]
    /\ PumpReturns(p, FALSE)
    /\ UNCHANGED <<socksVars, matcherVars, codecVars, poolVars, restVars,
                   req, pc, matched, ruleName, upstreams, selected,
                   successCalls, failCalls, failKind, ctxDone, closed, broken,
                   peerEOF, peerSent, written, pumpBuf>>

\* relayHalf: src.Read returns 0 bytes and io.EOF
PumpReadEOF(p) ==
    /\ pumpPc[p] = "read"
    /\ ~closed[p] /\ ~broken[p]
    /\ peerEOF[p]
    /\ inbox[p] = <<>>
    /\ PumpReturns(p, FALSE)
    /\ UNCHANGED <<socksVars, matcherVars, codecVars, poolVars, restVars,
                   req, pc, matched, ruleName, upstreams, selected,
                   successCalls, failCalls, failKind, ctxDone, closed, broken,
                   peerEOF, inbox, peerSent, written, pumpBuf, nread>>

\* relayHalf: src.Read fails, the connection being closed or broken
PumpReadErr(p) ==
    /\ pumpPc[p] = "read"
    /\ closed[p] \/ broken[p]
    /\ PumpReturns(p, TRUE)
    /\ UNCHANGED <<socksVars, matcherVars, codecVars, poolVars, restVars,
                   req, pc, matched, ruleName, upstreams, selected,
                   successCalls, failCalls, failKind, ctxDone, closed, broken,
                   peerEOF, inbox, peerSent, written, pumpBuf, nread>>

\* relayHalf: dst.Write(buf[:nr]) writes all of it
PumpWriteAll(p) ==
    /\ pumpPc[p] = "write"
    /\ ~closed[Other(p)] /\ ~broken[Other(p)]
    /\ written' = [written EXCEPT ![Other(p)] =
                      written[Other(p)] \o [i \in 1..Len(pumpBuf[p]) |->
                                               Data(pumpBuf[p][i])]]
    /\ pumpBuf' = [pumpBuf EXCEPT ![p] = <<>>]
    /\ pumpPc' = [pumpPc EXCEPT ![p] = "read"]
    /\ UNCHANGED <<socksVars, matcherVars, codecVars, poolVars, restVars,
                   req, pc, matched, ruleName, upstreams, selected,
                   successCalls, failCalls, failKind, ctxDone, relayCtxDone,
                   closed, broken, peerEOF, inbox, peerSent, nread, pumpEnd>>

\* relayHalf: dst.Write writes nw < nr bytes, with an error or without
\* (io.ErrShortWrite); on a closed or broken connection it writes none
PumpWriteShort(p, nw) ==
    /\ pumpPc[p] = "write"
    /\ nw \in 0..(Len(pumpBuf[p]) - 1)
    /\ (closed[Other(p)] \/ broken[Other(p)]) => nw = 0
    /\ written' = [written EXCEPT ![Other(p)] =
                      written[Other(p)] \o [i \in 1..nw |-> Data(pumpBuf[p][i])]]
    /\ pumpBuf' = [pumpBuf EXCEPT ![p] = <<>>]
    /\ PumpReturns(p, TRUE)
    /\ UNCHANGED <<socksVars, matcherVars, codecVars, poolVars, restVars,
                   req, pc, matched, ruleName, upstreams, selected,
                   successCalls, failCalls, failKind, ctxDone, closed, broken,
                   peerEOF, inbox, peerSent, nread>>

\* whether the connection exists: the downstream one from the start, the
\* upstream one once Request returned it
Established(c) ==
    c = "down" \/ pc \in {"doRelay", "waitRelay", "closeDown", "returned"}

\* the peer of a connection sends one more byte
PeerSend(c) ==
    /\ Established(c)
    /\ ~closed[c] /\ ~broken[c] /\ ~peerEOF[c]
    /\ peerSent[c] < (IF c = "down" THEN MaxDownBytes ELSE MaxUpBytes)
    /\ inbox' = [inbox EXCEPT ![c] = Append(inbox[c], FirstByte(c) + peerSent[c])]
    /\ peerSent' = [peerSent EXCEPT ![c] = peerSent[c] + 1]
    /\ UNCHANGED <<socksVars, matcherVars, codecVars, poolVars, restVars,
                   req, pc, matched, ruleName, upstreams, selected,
                   successCalls, failCalls, failKind, ctxDone, relayCtxDone,
                   closed, broken, peerEOF, written, pumpPc, pumpBuf, nread,
                   pumpEnd>>

\* the peer of a connection closes its sending side
PeerClose(c) ==
    /\ Established(c)
    /\ ~closed[c] /\ ~broken[c] /\ ~peerEOF[c]
    /\ peerEOF' = [peerEOF EXCEPT ![c] = TRUE]
    /\ UNCHANGED <<socksVars, matcherVars, codecVars, poolVars, restVars,
                   req, pc, matched, ruleName, upstreams, selected,
                   successCalls, failCalls, failKind, ctxDone, relayCtxDone,
                   closed, broken, inbox, peerSent, written, pumpPc, pumpBuf,
                   nread, pumpEnd>>

\* a connection breaks (reset, timeout): what arrived unread is lost
ConnBreaks(c) ==
    /\ Established(c)
    /\ ~closed[c] /\ ~broken[c]
    /\ broken' = [broken EXCEPT ![c] = TRUE]
    /\ inbox' = [inbox EXCEPT ![c] = <<>>]
    /\ UNCHANGED <<socksVars, matcherVars, codecVars, poolVars, restVars,
                   req, pc, matched, ruleName, upstreams, selected,
                   successCalls, failCalls, failKind, ctxDone, relayCtxDone,
                   closed, peerEOF, peerSent, written, pumpPc, pumpBuf, nread,
                   pumpEnd>>

\* CancelCtx with a relayCtx that is not derived from ctx
CancelCtx_NoPropagate ==
    /\ ~ctxDone
    /\ pc # "returned"
    /\ ctxDone' = TRUE
    /\ UNCHANGED <<socksVars, matcherVars, codecVars, poolVars, restVars,
                   req, pc, matched, ruleName, upstreams, selected,
                   successCalls, failCalls, failKind, relayCtxDone, closed,
                   broken, peerEOF, inbox, peerSent, written, pumpPc, pumpBuf,
                   nread, pumpEnd>>

\* the context of Run is cancelled; relayCtx, derived from it, is done too
CancelCtx ==
    /\ ~ctxDone
    /\ pc # "returned"
    /\ ctxDone' = TRUE
    /\ relayCtxDone' = (relayCtxDone \/ pc = "waitRelay")
    /\ UNCHANGED <<socksVars, matcherVars, codecVars, poolVars, restVars,
                   req, pc, matched, ruleName, upstreams, selected,
                   successCalls, failCalls, failKind, closed, broken, peerEOF,
                   inbox, peerSent, written, pumpPc, pumpBuf, nread, pumpEnd>>

PumpStep(p) ==
    \/ \E k \in 1..MaxChunk : PumpReadData(p, k)
    \/ PumpReadDataEOF(p)
    \/ PumpReadEOF(p)
    \/ PumpReadErr(p)
    \/ PumpWriteAll(p)
    \/ \E nw \in 0..MaxChunk : PumpWriteShort(p, nw)

Next ==
    \/ MatchRule
    \/ SelectUpstream
    \/ \E kind \in {ProxyGeneralErr, ProxyConnectFailed} : RequestFailed(kind)
    \/ RequestSucceeded
    \/ DoRelayStart
    \/ CloseUp
    \/ CloseDown
    \/ \E p \in Conns : PumpStep(p)
    \/ \E c \in Conns : PeerSend(c)
    \/ \E c \in Conns : PeerClose(c)
    \/ \E c \in Conns : ConnBreaks(c)
    \/ CancelCtx

Spec == Init /\ [][Next]_vars

\* doRelay gets nothing of the rule or the target: the relay is followed
\* for the request that rule "direct" lets through, with no default rule
RelayInit ==
    /\ Init
    /\ mConfig = AppRules
    /\ req = [type |-> "TCP4", ip |-> <<10, 0, 1, 2>>, name |-> ""]

\* the steps of doRelay and of its pumps, which the Go scheduler keeps
\* running; what the peers and the owner of the context do, and that the
\* upstream's Request returns, is not assumed to happen
FairSpec ==
    /\ RelayInit
    /\ [][Next]_vars
    /\ WF_vars(DoRelayStart)
    /\ WF_vars(CloseUp)
    /\ WF_vars(CloseDown)
    /\ \A p \in Conns : WF_vars(PumpStep(p))

(***************************************************************************)
(* Claims about the dispatcher and the relay engine.                       *)
(***************************************************************************)
InRelay == pc \in {"waitRelay", "closeDown", "returned"} /\ successCalls > 0

\* the relayed bytes written to a connection, in order
RECURSIVE DataOf(_)
DataOf(items) ==
    IF items = <<>> THEN <<>>
    ELSE IF Head(items).kind = "data" THEN <<Head(items).v>> \o DataOf(Tail(items))
    ELSE DataOf(Tail(items))

IsPrefix(a, b) == Len(a) <= Len(b) /\ SubSeq(b, 1, Len(a)) = a

\* C1: on every path of processOneRequest exactly one of Success and Fail is
\* called on the request, once: never both, never twice, and one of them
\* has been called when processOneRequest returns.
C1_ExactlyOneOfSuccessFail ==
    /\ successCalls + failCalls <= 1
    /\ pc = "returned" => successCalls + failCalls = 1

\* processOneRequest returned from doRelay, after Success
C1_Witness_ReturnedAfterSuccess == pc = "returned" /\ successCalls = 1 /\ failCalls = 0

\* C2: after a graceful EOF ended one pump (no pump failed, the context is
\* not cancelled), doRelay closes a stream only when the second pump has
\* returned too.
C2_CloseWaitsForSecondPump ==
    (/\ InRelay
     /\ closed["up"]
     /\ ~ctxDone
     /\ \E p \in Conns : pumpEnd[p] = "closed"
     /\ \A p \in Conns : pumpEnd[p] # "error")
    => \A p \in Conns : pumpPc[p] = "done"

RelayOver ==
    /\ pc = "returned"
    /\ closed["up"] /\ closed["down"]
    /\ \A p \in Conns : pumpPc[p] = "done"

\* C3: when a relay half ended with an error, or the context is cancelled
\* during the relay, both streams are eventually closed, the other pump
\* returns from its pending read or write, and doRelay returns.
C3_RelayEndsAfterErrorOrCancel ==
    (InRelay /\ (ctxDone \/ \E p \in Conns : pumpEnd[p] = "error")) ~> RelayOver

\* a pump ended with an error while the other pump waits in Read
C3_Witness_ErrorWhileOtherBlocked ==
    /\ InRelay
    /\ \E p \in Conns :
         /\ pumpEnd[p] = "error"
         /\ pumpPc[Other(p)] = "read"
         /\ inbox[Other(p)] = <<>> /\ ~peerEOF[Other(p)] /\ ~broken[Other(p)]

\* C4: in each direction the bytes delivered to the destination are a prefix
\* of the bytes read from the source, in order, and when the pump ended on
\* the source's EOF the two are equal.
C4_RelayConservation ==
    \A p \in Conns :
        /\ IsPrefix(DataOf(written[Other(p)]), nread[p])
        /\ pumpEnd[p] = "closed" => DataOf(written[Other(p)]) = nread[p]

\* C5: no pump runs before Success was called, and the reply of Success is
\* on the downstream connection before any relayed byte.
C5_SuccessBeforeRelay ==
    /\ \A p \in Conns : pumpPc[p] # "idle" => successCalls = 1
    /\ DataOf(written["down"]) # <<>> => written["down"][1] = Reply(socksSuccess)

C5_Witness_RelayedAfterReply ==
    /\ Len(written["down"]) > 1
    /\ written["down"][1] = Reply(socksSuccess)
    /\ written["down"][2].kind = "data"

\* C6: a request whose target matches a rule, or the default rule, with an
\* empty upstream list is failed with NotAllowed and no upstream is
\* contacted; with no matching rule and no default rule the candidates are
\* all configured upstreams.
C6_RejectRuleAndAllowAll ==
    (req.type \in {"TCP4", "TCP6", "Domain"} /\ pc \notin {"match", "select"}) =>
        /\ (matched.rule # "" /\ matched.upstreams = NoUpstreams) =>
              /\ pc = "returned"
              /\ failCalls = 1 /\ failKind = ProxyNotAllowed
              /\ selected = "" /\ successCalls = 0
        /\ matched.rule = "" =>
              /\ upstreams = upstreamNames
              /\ \E i \in 1..Len(upstreamNames) : selected = upstreamNames[i]

C6_Witness_RejectedByDefault ==
    /\ req.type = "TCP6"
    /\ matched.rule = defaultRuleName
    /\ pc = "returned" /\ failKind = ProxyNotAllowed

\* ---------------------------------------------------------------------
\* SOCKS5: the wire codec
\* ---------------------------------------------------------------------

socksVersion == 5
socksNoAuth == 0
socksUserPass == 2
socksConnect == 1
socksIPv4 == 1
socksDomainName == 3
socksIPv6 == 4

\* the method of the socksSelect that refuses every offered method
socksNoAcceptable == 255

Drop(s, n) == SubSeq(s, n + 1, Len(s))

\* bytes.IndexByte, 0-based, -1 when b is absent
IndexByte(s, b) ==
    IF \E i \in 1..Len(s) : s[i] = b
    THEN (CHOOSE i \in 1..Len(s) : s[i] = b /\ \A j \in 1..(i - 1) : s[j] # b) - 1
    ELSE -1

\* io.ReadFull of n bytes from a stream holding `in`; eof: no byte will follow
ReadFull(in, n, eof) ==
    IF Len(in) >= n THEN "ok" ELSE IF eof THEN "err" ELSE "block"

getPortFromBytes(raw) == raw[1] * 256 + raw[2]

\* net.IP.To4: the 4-byte form, <<>> for nil
To4(ip) ==
    IF Len(ip) = 4 THEN ip
    ELSE IF Len(ip) = 16 /\ SubSeq(ip, 1, 12) = V4InV6Prefix
         THEN SubSeq(ip, 13, 16)
         ELSE <<>>

\* socksHello.WritePacket: the bytes of its two Writes
socksHello_WritePacket(Methods) ==
    LET n == Len(Methods) IN
    IF n <= 0 \/ n > 255
    THEN [st |-> "err", bytes |-> <<>>]
    ELSE [st |-> "ok", bytes |-> <<socksVersion, n>> \o Methods]

\* socksHello.ReadPacket with one Read for the methods in place of
\* io.ReadFull: a short read is taken as the whole list
socksHello_ReadPacket_OneRead(in, eof) ==
    LET r1 == ReadFull(in, 2, eof) IN
    IF r1 # "ok" THEN [st |-> r1, Methods |-> <<>>, used |-> 0]
    ELSE IF in[1] # 5 /\ in[1] # 4
         THEN [st |-> "err", Methods |-> <<>>, used |-> 2]
         ELSE LET n == IF in[2] < Len(in) - 2 THEN in[2] ELSE Len(in) - 2
              IN  [st |-> "ok", Methods |-> SubSeq(in, 3, 2 + n),
                   used |-> 2 + n]

socksHello_ReadPacket(in, eof) ==
    LET r1 == ReadFull(in, 2, eof) IN
    IF r1 # "ok" THEN [st |-> r1, Methods |-> <<>>, used |-> 0]
    ELSE IF in[1] # 5 /\ in[1] # 4
         THEN [st |-> "err", Methods |-> <<>>, used |-> 2]
         ELSE LET n == in[2]
                  r2 == ReadFull(Drop(in, 2), n, eof)
              IN  IF r2 # "ok" THEN [st |-> r2, Methods |-> <<>>, used |-> 0]
                  ELSE [st |-> "ok", Methods |-> SubSeq(in, 3, 2 + n),
                        used |-> 2 + n]

socksSelect_WritePacket(Method) == <<socksVersion, Method>>

socksSelect_ReadPacket(in, eof) ==
    LET r1 == ReadFull(in, 2, eof) IN
    IF r1 # "ok" THEN [st |-> r1, Method |-> 0, used |-> 0]
    ELSE IF in[1] # 5 /\ in[1] # 4
         THEN [st |-> "err", Method |-> 0, used |-> 2]
         ELSE [st |-> "ok", Method |-> in[2], used |-> 2]

\* socksUserPassReq.WritePacket without the test of the password length:
\* the length byte is byte(lenPass)
socksUserPassReq_WritePacket_AnyPassword(Username, Password) ==
    LET lenUser == Len(Username)
        lenPass == Len(Password)
    IN  IF lenUser <= 0 \/ lenUser > 255 THEN [st |-> "err", bytes |-> <<>>]
        ELSE [st |-> "ok",
              bytes |-> <<1, lenUser>> \o Username \o <<lenPass % 256>>
                            \o Password]

socksUserPassReq_WritePacket(Username, Password) ==
    LET lenUser == Len(Username)
        lenPass == Len(Password)
    IN  IF lenUser <= 0 \/ lenUser > 255 THEN [st |-> "err", bytes |-> <<>>]
        ELSE IF lenPass <= 0 \/ lenPass > 255
             THEN [st |-> "err", bytes |-> <<>>]
             ELSE [st |-> "ok",
                   bytes |-> <<1, lenUser>> \o Username \o <<lenPass>> \o Password]

socksUserPassReq_ReadPacket(in, eof) ==
    LET none == [st |-> "err", Username |-> <<>>, Password |-> <<>>, used |-> 0]
        r1 == ReadFull(in, 2, eof)
    IN
    IF r1 # "ok" THEN [none EXCEPT !.st = r1]
    ELSE IF in[1] # 1 THEN [none EXCEPT !.used = 2]
    ELSE
      LET n == in[2]
          r2 == ReadFull(Drop(in, 2), n, eof)
      IN
      IF r2 # "ok" THEN [none EXCEPT !.st = r2]
      ELSE
        LET r3 == ReadFull(Drop(in, 2 + n), 1, eof) IN
        IF r3 # "ok" THEN [none EXCEPT !.st = r3]
        ELSE
          LET m == in[3 + n]
              r4 == ReadFull(Drop(in, 3 + n), m, eof)
          IN
          IF r4 # "ok" THEN [none EXCEPT !.st = r4]
          ELSE [st |-> "ok",
                Username |-> SubSeq(in, 3, 2 + n),
                Password |-> SubSeq(in, 4 + n, 3 + n + m),
                used |-> 3 + n + m]

socksUserPassResp_WritePacket(Status) == IF Status THEN <<1, 0>> ELSE <<1, 1>>

socksUserPassResp_ReadPacket(in, eof) ==
    LET r1 == ReadFull(in, 2, eof) IN
    IF r1 # "ok" THEN [st |-> r1, Status |-> FALSE, used |-> 0]
    ELSE IF in[1] # 1
         THEN [st |-> "err", Status |-> FALSE, used |-> 2]
         ELSE [st |-> "ok", Status |-> in[2] = 0, used |-> 2]

\* the port written low byte first
PortBytes_LowFirst(port) == <<port % 256, (port \div 256) % 256>>

\* byte(port>>8), byte(port)
PortBytes(port) == <<(port \div 256) % 256, port % 256>>

\* socksReqResp.WritePacket: "addrErr" is an addrError, "err" another error;
\* nothing is written unless st is "ok"
socksReqResp_WritePacket(Type, Addr) ==
    LET head == <<socksVersion, Type, 0>> IN
    IF Addr.type = "TCP4"
    THEN IF To4(Addr.ip) # <<>>
         THEN [st |-> "ok",
               bytes |-> head \o <<socksIPv4>> \o To4(Addr.ip) \o PortBytes(Addr.port)]
         ELSE [st |-> "err", bytes |-> <<>>]
    ELSE IF Addr.type = "TCP6"
    THEN IF Len(Addr.ip) \in {4, 16}
         THEN [st |-> "ok",
               bytes |-> head \o <<socksIPv6>> \o To16(Addr.ip) \o PortBytes(Addr.port)]
         ELSE [st |-> "err", bytes |-> <<>>]
    ELSE IF Addr.type = "Domain"
    THEN IF Len(Addr.name) > 255
         THEN [st |-> "addrErr", bytes |-> <<>>]
         ELSE [st |-> "ok",
               bytes |-> head \o <<socksDomainName, Len(Addr.name)>>
                              \o Addr.name \o PortBytes(Addr.port)]
    ELSE [st |-> "addrErr", bytes |-> <<>>]

socksReqResp_ReadPacket(in, eof) ==
    LET none == [st |-> "err", Type |-> 0, Addr |-> NilAddr, used |-> 0]
        r1 == ReadFull(in, 4, eof)
    IN
    IF r1 # "ok" THEN [none EXCEPT !.st = r1]
    ELSE IF in[1] # 5 /\ in[1] # 4 THEN [none EXCEPT !.used = 4]
    ELSE
      LET rest == Drop(in, 4)
          typed == [none EXCEPT !.Type = in[2]]
      IN
      IF in[4] = socksIPv4
      THEN LET r2 == ReadFull(rest, 6, eof) IN
           IF r2 # "ok" THEN [typed EXCEPT !.st = r2]
           ELSE [st |-> "ok", Type |-> in[2],
                 Addr |-> [type |-> "TCP4", ip |-> SubSeq(rest, 1, 4),
                           name |-> <<>>,
                           port |-> getPortFromBytes(SubSeq(rest, 5, 6))],
                 used |-> 10]
      ELSE IF in[4] = socksIPv6
      THEN LET r2 == ReadFull(rest, 18, eof) IN
           IF r2 # "ok" THEN [typed EXCEPT !.st = r2]
           ELSE [st |-> "ok", Type |-> in[2],
                 Addr |-> [type |-> "TCP6", ip |-> SubSeq(rest, 1, 16),
                           name |-> <<>>,
                           port |-> getPortFromBytes(SubSeq(rest, 17, 18))],
                 used |-> 22]
      ELSE IF in[4] = socksDomainName
      THEN LET r2 == ReadFull(rest, 1, eof) IN
           IF r2 # "ok" THEN [typed EXCEPT !.st = r2]
           ELSE LET nDN == rest[1]
                    r3 == ReadFull(Drop(rest, 1), nDN + 2, eof)
                IN  IF r3 # "ok" THEN [typed EXCEPT !.st = r3]
                    ELSE [st |-> "ok", Type |-> in[2],
                          Addr |-> [type |-> "Domain", ip |-> <<>>,
                                    name |-> SubSeq(rest, 2, 1 + nDN),
                                    port |-> getPortFromBytes(
                                                SubSeq(rest, 2 + nDN, 3 + nDN))],
                          used |-> 7 + nDN]
      ELSE [typed EXCEPT !.st = "addrErr", !.used = 4]

\* ---------------------------------------------------------------------
\* SOCKS5: one connection between a client and SOCKS5Server
\* ---------------------------------------------------------------------

\* the longest user name and password of the configurations
MaxCredLen == 1

CredBytes == {97, 112}

RECURSIVE Strings(_)
Strings(n) ==
    IF n = 0 THEN {<<>>}
    ELSE Strings(n - 1) \cup
         {Append(s, b) : s \in Strings(n - 1), b \in CredBytes}

\* the CheckUserFunc of the server: one user, as in the tests
CheckUser(user, pass) == user = <<97>> /\ pass = <<112>>

\* newSOCKS5Server without the test of simplified together with checkUser
newSOCKS5Server_AcceptsAll(simplified, checkUser) ==
    [err |-> FALSE,
     server |-> [simplified |-> simplified, checkUser |-> checkUser]]

\* newSOCKS5Server: an error when simplified comes with a checkUser, else the
\* server with the two fields as given
newSOCKS5Server(simplified, checkUser) ==
    IF simplified /\ checkUser
    THEN [err |-> TRUE,
          server |-> [simplified |-> FALSE, checkUser |-> FALSE]]
    ELSE [err |-> FALSE,
          server |-> [simplified |-> simplified, checkUser |-> checkUser]]

\* the servers newSOCKS5Server returns without an error
ServerConfigs ==
    {r.server : r \in {n \in {newSOCKS5Server(s, c) :
                                  s \in BOOLEAN, c \in BOOLEAN} : ~n.err}}

TCP4Target == [type |-> "TCP4", ip |-> <<10, 0, 1, 2>>, name |-> <<>>, port |-> 80]

TCP6Target ==
    [type |-> "TCP6", ip |-> <<32, 1, 13, 184, 0, 0, 0, 0, 0, 0, 0, 0, 0, 0, 0, 1>>,
     name |-> <<>>, port |-> 443]

DomainTarget == [type |-> "Domain", ip |-> <<>>, name |-> <<120>>, port |-> 80]

LongDomainTarget ==
    [type |-> "Domain", ip |-> <<>>, name |-> [i \in 1..256 |-> 120], port |-> 80]

UnknownTarget == [type |-> "Unknown", ip |-> <<>>, name |-> <<>>, port |-> 0]

ClientAddrs ==
    {TCP4Target, TCP6Target, DomainTarget, LongDomainTarget, UnknownTarget}

\* the address an upstream reports as bound
BoundAddr == [type |-> "TCP4", ip |-> <<10, 0, 0, 9>>, name |-> <<>>, port |-> 1080]

ZeroAddr == [type |-> "TCP4", ip |-> <<0, 0, 0, 0>>, name |-> <<>>, port |-> 0]

\* the bound addresses a ProxyClient returns with its connection
BoundAddrs == {BoundAddr, TCP6Target, DomainTarget}

\* a reply code of RFC 1928 that is none of the ProxyErrorType constants:
\* host unreachable
socksHostUnreachable == 4

\* the ErrType of the ProxyErrors the receiver of reqCh passes to Fail: its
\* own, and the ones an upstream hop's client built from the reply it read
FailKinds ==
    {ProxyGeneralErr, ProxyNotAllowed, ProxyConnectFailed, ProxyCmdUnsupported,
     ProxyAddrUnsupported, socksHostUnreachable}

SOCKS5Clients ==
    {[kind |-> "SOCKS5Client", Simplified |-> s, Username |-> u,
      Password |-> p, addr |-> a] :
     s \in BOOLEAN, u \in Strings(MaxCredLen), p \in Strings(MaxCredLen),
     a \in ClientAddrs}

RawClient ==
    [kind |-> "raw", Simplified |-> FALSE, Username |-> <<>>,
     Password |-> <<>>, addr |-> NilAddr]

\* what a peer that is not SOCKS5Client may send: a Hello, then a
\* user/password request, then a request; well-formed or not
RawHellos ==
    {<<5, 1, 0>>, <<5, 1, 2>>, <<5, 2, 0, 2>>, <<4, 1, 2>>, <<5, 1, 1>>,
     <<3, 1, 0>>, <<5, 0>>, <<5, 2, 0>>}

RawAuths ==
    {<<>>, <<2, 1, 97, 1, 112>>, <<1, 1, 97>>} \cup
    {<<1, Len(u)>> \o u \o <<Len(p)>> \o p :
        u \in Strings(MaxCredLen), p \in Strings(MaxCredLen)}

RawRequests ==
    {<<5, 1, 0, 1, 10, 0, 1, 2, 0, 80>>, <<5, 2, 0, 1, 10, 0, 1, 2, 0, 80>>,
     <<5, 1, 0, 9, 10, 0>>, <<5, 1, 0, 3, 1, 120, 0, 80>>}

RawScripts == {h \o a \o r : h \in RawHellos, a \in RawAuths, r \in RawRequests}

SocksInit ==
    /\ mConfig = [n \in {} |-> DefaultRule]
    /\ brt = EmptyBrt
    /\ visited = {}
    /\ keys = <<>>
    /\ panicked = FALSE
    /\ lastQuery = NoQuery
    /\ lastResult = NoResult
    /\ req = NoReq
    /\ RelayIdle
    /\ CodecIdle
    /\ PoolIdle
    /\ RestIdle
    /\ server \in ServerConfigs
    /\ client \in SOCKS5Clients \cup {RawClient}
    /\ rawLeft \in IF client.kind = "raw" THEN RawScripts ELSE {<<>>}
    /\ c2s = <<>>
    /\ s2c = <<>>
    /\ cliClosed = FALSE
    /\ srvClosed = FALSE
    /\ netDown = FALSE
    /\ sPc = IF server.simplified THEN "request" ELSE "hello"
    /\ cPc = IF client.kind = "raw" THEN "raw" ELSE "start"
    /\ helloPkt = NoHello
    /\ authPkt = NoAuthPkt
    /\ targetAddr = NilAddr
    /\ srvWrites = <<>>
    /\ checked = <<>>
    /\ emitted = FALSE
    /\ cResult = -1
    /\ reqPkt = NoReqPkt
    /\ srvCall = NoCall
    /\ cBound = NilAddr

\* what no action of the server changes
cliSide == <<server, client, cliClosed, netDown, cPc, rawLeft, cResult, cBound>>

\* what no action of the client changes
srvSide ==
    <<server, client, srvClosed, netDown, sPc, helloPkt, authPkt, targetAddr,
      srvWrites, checked, emitted, reqPkt, srvCall>>

\* Reads of cli.conn fail once the buffered bytes are used up
SrvEOF == cliClosed \/ netDown

CliEOF == srvClosed \/ netDown

\* the end of a step of handshake that leaves cli.conn open on an error
SrvStep_NoClose(used, wr, nextPc, close) ==
    /\ c2s' = Drop(c2s, used)
    /\ srvWrites' = srvWrites \o wr
    /\ s2c' = IF wr = <<>> \/ netDown \/ cliClosed THEN s2c ELSE s2c \o wr[1]
    /\ sPc' = IF close THEN "done" ELSE nextPc
    /\ UNCHANGED srvClosed

\* the server consumed `used` bytes and called Write once for each element of
\* wr; handshake goes on at nextPc, or closes cli.conn
SrvStep(used, wr, nextPc, close) ==
    /\ c2s' = Drop(c2s, used)
    /\ srvWrites' = srvWrites \o wr
    /\ s2c' = IF wr = <<>> \/ netDown \/ cliClosed THEN s2c ELSE s2c \o wr[1]
    /\ sPc' = IF close THEN "done" ELSE nextPc
    /\ srvClosed' = (srvClosed \/ close)

\* handshake with the Hello always answered by socksNoAuth when offered,
\* whether or not checkUser is set
SrvHello_AlwaysNoAuth ==
    /\ sPc = "hello"
    /\ LET r == socksHello_ReadPacket(c2s, SrvEOF) IN
       /\ r.st # "block"
       /\ IF r.st = "ok"
          THEN /\ helloPkt' = [read |-> TRUE, Methods |-> r.Methods]
               /\ IF IndexByte(r.Methods, socksNoAuth) >= 0
                  THEN SrvStep(r.used, <<socksSelect_WritePacket(socksNoAuth)>>,
                               "request", netDown)
                  ELSE SrvStep(r.used,
                               <<socksSelect_WritePacket(socksNoAcceptable)>>,
                               "done", TRUE)
          ELSE /\ UNCHANGED helloPkt
               /\ SrvStep(r.used, <<>>, "done", TRUE)
    /\ UNCHANGED <<matcherVars, relayVars, codecVars, poolVars, restVars,
                   cliSide, authPkt, targetAddr,
                   checked, emitted, reqPkt, srvCall>>

\* handshake from helloPkt.ReadPacket to the next ReadPacket: the Select, and
\* in authUser the Select of socksUserPass
SrvHello ==
    /\ sPc = "hello"
    /\ LET r == socksHello_ReadPacket(c2s, SrvEOF) IN
       /\ r.st # "block"
       /\ IF r.st = "ok"
          THEN /\ helloPkt' = [read |-> TRUE, Methods |-> r.Methods]
               /\ IF server.checkUser
                  THEN IF IndexByte(r.Methods, socksUserPass) >= 0
                       THEN SrvStep(r.used,
                                    <<socksSelect_WritePacket(socksUserPass)>>,
                                    "auth", netDown)
                       ELSE SrvStep(r.used,
                                    <<socksSelect_WritePacket(socksNoAcceptable)>>,
                                    "done", TRUE)
                  ELSE IF IndexByte(r.Methods, socksNoAuth) >= 0
                       THEN SrvStep(r.used,
                                    <<socksSelect_WritePacket(socksNoAuth)>>,
                                    "request", netDown)
                       ELSE SrvStep(r.used,
                                    <<socksSelect_WritePacket(socksNoAcceptable)>>,
                                    "done", TRUE)
          ELSE /\ UNCHANGED helloPkt
               /\ SrvStep(r.used, <<>>, "done", TRUE)
    /\ UNCHANGED <<matcherVars, relayVars, codecVars, poolVars, restVars,
                   cliSide, authPkt, targetAddr,
                   checked, emitted, reqPkt, srvCall>>

\* authUser with the result of checkUser ignored
SrvAuthUser_NoCheck ==
    /\ sPc = "auth"
    /\ LET r == socksUserPassReq_ReadPacket(c2s, SrvEOF) IN
       /\ r.st # "block"
       /\ IF r.st = "ok"
          THEN /\ authPkt' = [read |-> TRUE, Username |-> r.Username,
                              Password |-> r.Password]
               /\ checked' = Append(checked,
                                [user |-> r.Username, pass |-> r.Password,
                                 ok |-> CheckUser(r.Username, r.Password)])
               /\ SrvStep(r.used, <<socksUserPassResp_WritePacket(TRUE)>>,
                          "request", netDown)
          ELSE /\ UNCHANGED <<authPkt, checked>>
               /\ SrvStep(r.used, <<>>, "done", TRUE)
    /\ UNCHANGED <<matcherVars, relayVars, codecVars, poolVars, restVars,
                   cliSide, helloPkt, targetAddr,
                   emitted, reqPkt, srvCall>>

\* authUser from authPkt.ReadPacket on, and handshake up to reqPkt.ReadPacket
SrvAuthUser ==
    /\ sPc = "auth"
    /\ LET r == socksUserPassReq_ReadPacket(c2s, SrvEOF) IN
       /\ r.st # "block"
       /\ IF r.st = "ok"
          THEN /\ authPkt' = [read |-> TRUE, Username |-> r.Username,
                              Password |-> r.Password]
               /\ checked' = Append(checked,
                                [user |-> r.Username, pass |-> r.Password,
                                 ok |-> CheckUser(r.Username, r.Password)])
               /\ IF CheckUser(r.Username, r.Password)
                  THEN SrvStep(r.used, <<socksUserPassResp_WritePacket(TRUE)>>,
                               "request", netDown)
                  ELSE SrvStep(r.used, <<socksUserPassResp_WritePacket(FALSE)>>,
                               "done", TRUE)
          ELSE /\ UNCHANGED <<authPkt, checked>>
               /\ SrvStep(r.used, <<>>, "done", TRUE)
    /\ UNCHANGED <<matcherVars, relayVars, codecVars, poolVars, restVars,
                   cliSide, helloPkt, targetAddr,
                   emitted, reqPkt, srvCall>>

\* handshake from reqPkt.ReadPacket to its end, with the request emitted
\* whatever command the packet carries
SrvRequest_AnyCmd(idErr) ==
    /\ sPc = "request"
    /\ LET r == socksReqResp_ReadPacket(c2s, SrvEOF) IN
       /\ r.st # "block"
       /\ reqPkt' = [st |-> r.st, Type |-> r.Type, Addr |-> r.Addr]
       /\ IF r.st = "ok"
          THEN /\ targetAddr' = r.Addr
               /\ emitted' = ~idErr
               /\ SrvStep(r.used, <<>>, "emitted", idErr)
          ELSE /\ SrvStep(r.used, <<>>, "done", TRUE)
               /\ UNCHANGED <<targetAddr, emitted>>
    /\ UNCHANGED <<matcherVars, relayVars, codecVars, poolVars, restVars,
                   cliSide, helloPkt, authPkt, checked,
                   srvCall>>

\* handshake from reqPkt.ReadPacket to its end; idErr: GetPeerIdentifiers of
\* the connection fails
SrvRequest(idErr) ==
    /\ sPc = "request"
    /\ LET r == socksReqResp_ReadPacket(c2s, SrvEOF) IN
       /\ r.st # "block"
       /\ reqPkt' = [st |-> r.st, Type |-> r.Type, Addr |-> r.Addr]
       /\ IF r.st = "ok"
          THEN IF r.Type = socksConnect
               THEN /\ targetAddr' = r.Addr
                    /\ emitted' = ~idErr
                    /\ SrvStep(r.used, <<>>, "emitted", idErr)
               ELSE LET w == socksReqResp_WritePacket(ProxyCmdUnsupported, r.Addr)
                    IN  /\ SrvStep(r.used,
                                   IF w.st = "ok" THEN <<w.bytes>> ELSE <<>>,
                                   "done", TRUE)
                        /\ UNCHANGED <<targetAddr, emitted>>
          ELSE IF r.st = "addrErr"
               THEN LET w == socksReqResp_WritePacket(ProxyAddrUnsupported, r.Addr)
                    IN  /\ SrvStep(r.used,
                                   IF w.st = "ok" THEN <<w.bytes>> ELSE <<>>,
                                   "done", TRUE)
                        /\ UNCHANGED <<targetAddr, emitted>>
               ELSE /\ SrvStep(r.used, <<>>, "done", TRUE)
                    /\ UNCHANGED <<targetAddr, emitted>>
    /\ UNCHANGED <<matcherVars, relayVars, codecVars, poolVars, restVars,
                   cliSide, helloPkt, authPkt, checked,
                   srvCall>>

\* socks5Request.Success, called by the receiver of reqCh
socks5Request_Success(addr) ==
    /\ sPc = "emitted"
    /\ LET w == socksReqResp_WritePacket(socksSuccess, addr) IN
       SrvStep(0, IF w.st = "ok" THEN <<w.bytes>> ELSE <<>>, "replied", FALSE)
    /\ srvCall' = [fn |-> "Success", errType |-> 0, addr |-> addr]
    /\ UNCHANGED <<matcherVars, relayVars, codecVars, poolVars, restVars,
                   cliSide, helloPkt, authPkt,
                   targetAddr, checked, emitted, reqPkt>>

\* socks5Request.Fail without the Close of r.conn
socks5Request_Fail_KeepOpen(errType) ==
    /\ sPc = "emitted"
    /\ LET w == socksReqResp_WritePacket(errType, ZeroAddr) IN
       SrvStep(0, IF w.st = "ok" THEN <<w.bytes>> ELSE <<>>, "done", FALSE)
    /\ srvCall' = [fn |-> "Fail", errType |-> errType, addr |-> NilAddr]
    /\ UNCHANGED <<matcherVars, relayVars, codecVars, poolVars, restVars,
                   cliSide, helloPkt, authPkt,
                   targetAddr, checked, emitted, reqPkt>>

\* socks5Request.Fail, called by the receiver of reqCh
socks5Request_Fail(errType) ==
    /\ sPc = "emitted"
    /\ LET w == socksReqResp_WritePacket(errType, ZeroAddr) IN
       SrvStep(0, IF w.st = "ok" THEN <<w.bytes>> ELSE <<>>, "done", TRUE)
    /\ srvCall' = [fn |-> "Fail", errType |-> errType, addr |-> NilAddr]
    /\ UNCHANGED <<matcherVars, relayVars, codecVars, poolVars, restVars,
                   cliSide, helloPkt, authPkt,
                   targetAddr, checked, emitted, reqPkt>>

\* doRequest returned errType (0: no error) and Request returns it; Request
\* closes conn when it is an error
CliReturn(errType) ==
    /\ cResult' = errType
    /\ cPc' = "returned"
    /\ cliClosed' = (cliClosed \/ errType # 0)
    /\ cBound' = NilAddr

\* Request returns conn, boundAddr and a nil error
CliReturnConn(boundAddr) ==
    /\ cResult' = 0
    /\ cPc' = "returned"
    /\ cBound' = boundAddr
    /\ UNCHANGED cliClosed

\* a Write of the client that succeeded
CliWrite(bytes) == c2s' = IF srvClosed THEN c2s ELSE c2s \o bytes

\* doRequest from "send connect request" to respPkt.ReadPacket
CliSendRequest ==
    LET w == socksReqResp_WritePacket(socksConnect, client.addr) IN
    IF w.st = "addrErr"
    THEN /\ CliReturn(ProxyAddrUnsupported)
         /\ UNCHANGED c2s
    ELSE IF w.st = "err" \/ netDown
         THEN /\ CliReturn(ProxyGeneralErr)
              /\ UNCHANGED c2s
         ELSE /\ CliWrite(w.bytes)
              /\ cPc' = "readResp"
              /\ UNCHANGED <<cResult, cliClosed, cBound>>

\* Request after Dial, and doRequest up to its first ReadPacket: in
\* authenticate the Hello, or the request when Simplified
CliStart ==
    /\ cPc = "start"
    /\ IF client.Simplified
       THEN CliSendRequest
       ELSE LET Methods ==
                    <<socksNoAuth>> \o
                    (IF Len(client.Username) > 0 /\ Len(client.Password) > 0
                     THEN <<socksUserPass>> ELSE <<>>)
                w == socksHello_WritePacket(Methods)
            IN  IF w.st # "ok" \/ netDown
                THEN /\ CliReturn(ProxyGeneralErr)
                     /\ UNCHANGED c2s
                ELSE /\ CliWrite(w.bytes)
                     /\ cPc' = "readSelect"
                     /\ UNCHANGED <<cResult, cliClosed, cBound>>
    /\ UNCHANGED <<matcherVars, relayVars, codecVars, poolVars, restVars,
                   srvSide, rawLeft, s2c>>

\* authenticate from selectPkt.ReadPacket to the next ReadPacket
CliReadSelect ==
    /\ cPc = "readSelect"
    /\ LET r == socksSelect_ReadPacket(s2c, CliEOF) IN
       /\ r.st # "block"
       /\ s2c' = Drop(s2c, r.used)
       /\ IF r.st # "ok"
          THEN /\ CliReturn(ProxyGeneralErr)
               /\ UNCHANGED c2s
          ELSE IF r.Method = socksUserPass
          THEN LET w == socksUserPassReq_WritePacket(client.Username,
                                                     client.Password)
               IN  IF w.st # "ok" \/ netDown
                   THEN /\ CliReturn(ProxyGeneralErr)
                        /\ UNCHANGED c2s
                   ELSE /\ CliWrite(w.bytes)
                        /\ cPc' = "readAuthResp"
                        /\ UNCHANGED <<cResult, cliClosed, cBound>>
          ELSE IF r.Method = socksNoAuth
          THEN CliSendRequest
          ELSE /\ CliReturn(ProxyGeneralErr)
               /\ UNCHANGED c2s
    /\ UNCHANGED <<matcherVars, relayVars, codecVars, poolVars, restVars,
                   srvSide, rawLeft>>

\* authenticate from authRespPkt.ReadPacket, and doRequest up to
\* respPkt.ReadPacket
CliReadAuthResp ==
    /\ cPc = "readAuthResp"
    /\ LET r == socksUserPassResp_ReadPacket(s2c, CliEOF) IN
       /\ r.st # "block"
       /\ s2c' = Drop(s2c, r.used)
       /\ IF r.st = "ok" /\ r.Status
          THEN CliSendRequest
          ELSE /\ CliReturn(ProxyGeneralErr)
               /\ UNCHANGED c2s
    /\ UNCHANGED <<matcherVars, relayVars, codecVars, poolVars, restVars,
                   srvSide, rawLeft>>

\* doRequest from respPkt.ReadPacket to its end, with errType left at
\* ProxyGeneralErr whatever the reply
CliReadResp_AlwaysGeneral ==
    /\ cPc = "readResp"
    /\ LET r == socksReqResp_ReadPacket(s2c, CliEOF) IN
       /\ r.st # "block"
       /\ s2c' = Drop(s2c, r.used)
       /\ IF r.st = "ok"
          THEN IF r.Type # socksSuccess
               THEN CliReturn(ProxyGeneralErr)
               ELSE CliReturnConn(r.Addr)
          ELSE CliReturn(ProxyGeneralErr)
    /\ UNCHANGED <<matcherVars, relayVars, codecVars, poolVars, restVars,
                   srvSide, rawLeft, c2s>>

\* doRequest from respPkt.ReadPacket to its end
CliReadResp ==
    /\ cPc = "readResp"
    /\ LET r == socksReqResp_ReadPacket(s2c, CliEOF) IN
       /\ r.st # "block"
       /\ s2c' = Drop(s2c, r.used)
       /\ IF r.st = "ok"
          THEN IF r.Type # socksSuccess
               THEN CliReturn(r.Type)
               ELSE CliReturnConn(r.Addr)
          ELSE CliReturn(ProxyGeneralErr)
    /\ UNCHANGED <<matcherVars, relayVars, codecVars, poolVars, restVars,
                   srvSide, rawLeft, c2s>>

\* Request: c.Transport.Dial returns an error, no connection is made and the
\* server accepts none
CliDialFails ==
    /\ client.kind = "SOCKS5Client"
    /\ cPc = "start"
    /\ sPc \in {"hello", "request"}
    /\ c2s = <<>>
    /\ ~netDown
    /\ cResult' = ProxyGeneralErr
    /\ cPc' = "dialFailed"
    /\ sPc' = "none"
    /\ UNCHANGED <<matcherVars, relayVars, codecVars, poolVars, restVars,
                   server, client, c2s, s2c, cliClosed,
                   srvClosed, netDown, helloPkt, authPkt, targetAddr,
                   srvWrites, checked, emitted, rawLeft, reqPkt, srvCall,
                   cBound>>

\* Request: ctx is done before doRequest delivers on errCh
CliCtxDone ==
    /\ client.kind = "SOCKS5Client"
    /\ cPc \notin {"returned", "dialFailed", "cancelled"}
    /\ cResult' = ProxyGeneralErr
    /\ cPc' = "cancelled"
    /\ cliClosed' = TRUE
    /\ UNCHANGED <<matcherVars, relayVars, codecVars, poolVars, restVars,
                   srvSide, rawLeft, c2s, s2c, cBound>>

\* a raw peer sends the next k bytes
RawSend(k) ==
    /\ client.kind = "raw"
    /\ ~cliClosed
    /\ k \in 1..Len(rawLeft)
    /\ c2s' = IF srvClosed \/ netDown THEN c2s ELSE c2s \o SubSeq(rawLeft, 1, k)
    /\ rawLeft' = Drop(rawLeft, k)
    /\ UNCHANGED <<matcherVars, relayVars, codecVars, poolVars, restVars,
                   srvSide, s2c, cliClosed, cPc, cResult,
                   cBound>>

\* a raw peer closes the connection
RawClose ==
    /\ client.kind = "raw"
    /\ ~cliClosed
    /\ cliClosed' = TRUE
    /\ UNCHANGED <<matcherVars, relayVars, codecVars, poolVars, restVars,
                   srvSide, rawLeft, c2s, s2c, cPc,
                   cResult, cBound>>

\* the connection breaks
NetBreaks ==
    /\ ~netDown
    /\ sPc \notin {"done", "replied", "none"}
    /\ netDown' = TRUE
    /\ UNCHANGED <<matcherVars, relayVars, codecVars, poolVars, restVars,
                   server, client, c2s, s2c, cliClosed,
                   srvClosed, sPc, cPc, helloPkt, authPkt, targetAddr,
                   srvWrites, checked, emitted, rawLeft, cResult, reqPkt,
                   srvCall, cBound>>

\* the largest chunk a raw peer sends at once
MaxRawChunk == 3

SocksNext ==
    \/ SrvHello
    \/ SrvAuthUser
    \/ \E idErr \in BOOLEAN : SrvRequest(idErr)
    \/ \E addr \in BoundAddrs : socks5Request_Success(addr)
    \/ \E errType \in FailKinds : socks5Request_Fail(errType)
    \/ CliStart
    \/ CliReadSelect
    \/ CliReadAuthResp
    \/ CliReadResp
    \/ CliDialFails
    \/ CliCtxDone
    \/ \E k \in 1..MaxRawChunk : RawSend(k)
    \/ RawClose
    \/ NetBreaks

SpecSocks == SocksInit /\ [][SocksNext]_vars

\* ---------------------------------------------------------------------
\* SOCKS5: the claims
\* ---------------------------------------------------------------------

\* the credentials of a SOCKS5Client are missing or wrong
BadCredentials == ~CheckUser(client.Username, client.Password)

\* C9: with checkUser set, a request is emitted on reqCh only if checkUser
\* returned true for the user name and password the connection presented
\* (the ones on the wire, which for SOCKS5Client are its Username and
\* Password); when a SOCKS5Client that negotiates has missing or wrong
\* credentials, handshake never gets past the authentication, it ends with
\* cli.conn closed and nothing emitted, and Request returns no other result
\* than a GeneralErr error
C9_CheckUserGatesEmission ==
    server.checkUser =>
      /\ emitted =>
           /\ authPkt.read
           /\ CheckUser(authPkt.Username, authPkt.Password)
           /\ checked = <<[user |-> authPkt.Username,
                           pass |-> authPkt.Password, ok |-> TRUE]>>
           /\ client.kind = "SOCKS5Client" =>
                /\ authPkt.Username = client.Username
                /\ authPkt.Password = client.Password
      /\ (client.kind = "SOCKS5Client" /\ ~client.Simplified /\ BadCredentials) =>
           /\ ~emitted
           /\ sPc \in {"none", "hello", "auth", "done"}
           /\ sPc = "done" => srvClosed
           /\ cPc \in {"returned", "cancelled"} => cResult = ProxyGeneralErr

\* a SOCKS5Client with a wrong password was refused by checkUser, the server
\* closed the connection and Request returned GeneralErr
C9_Witness_WrongPasswordRefused ==
    /\ server.checkUser
    /\ client.kind = "SOCKS5Client"
    /\ client.Username = <<97>> /\ client.Password = <<97>>
    /\ checked = <<[user |-> <<97>>, pass |-> <<97>>, ok |-> FALSE]>>
    /\ srvClosed /\ ~emitted
    /\ cPc = "returned" /\ cResult = ProxyGeneralErr
    /\ ~netDown

\* the method handshake requires of the Hello
RequiredMethod == IF server.checkUser THEN 2 ELSE 0

\* C10: in non-simplified mode, once the Hello is read, the first thing the
\* server writes is a Select: of the required method (2 with checkUser, 0
\* without) exactly when the Hello offers it, and otherwise of 0xff, which is
\* then all it writes, with the connection closed and no request emitted
C10_SelectRequiredMethod ==
    (~server.simplified /\ helloPkt.read) =>
      LET offered ==
              \E i \in 1..Len(helloPkt.Methods) :
                  helloPkt.Methods[i] = RequiredMethod
      IN  /\ Len(srvWrites) >= 1
          /\ offered => srvWrites[1] = <<5, RequiredMethod>>
          /\ ~offered =>
               /\ srvWrites = << <<5, 255>> >>
               /\ srvClosed
               /\ sPc = "done"
               /\ ~emitted

\* with checkUser set, a Hello offering only method 0 was answered by
\* Select(0xff) and the connection closed
C10_Witness_NoAuthRefused ==
    /\ server.checkUser
    /\ helloPkt = [read |-> TRUE, Methods |-> <<0>>]
    /\ srvWrites = << <<5, 255>> >>
    /\ srvClosed /\ ~emitted

(***************************************************************************)
(* The request of the handshake                                            *)
(***************************************************************************)

\* the last packet the server wrote, read back as a socksReqResp
LastReply == socksReqResp_ReadPacket(srvWrites[Len(srvWrites)], TRUE)

\* handshake read a whole request whose command is not CONNECT
NonConnectRequest == reqPkt.st = "ok" /\ reqPkt.Type # socksConnect

\* C11: for a request whose command is not CONNECT the server writes a
\* ReqResp of type CmdUnsupported, closes the connection and emits no
\* request
C11_NonConnectRefused ==
    NonConnectRequest =>
        /\ srvWrites # <<>>
        /\ LastReply.st = "ok"
        /\ LastReply.Type = ProxyCmdUnsupported
        /\ srvClosed
        /\ ~emitted
        /\ sPc = "done"

C11_Witness_BindRefused ==
    /\ NonConnectRequest
    /\ reqPkt.Type = 2
    /\ srvClosed
    /\ Len(srvWrites) = 2

\* reqPkt.ReadPacket returned an addrError: the address type of the request
\* is none of IPv4, IPv6 and domain name
AddrParseFailed == reqPkt.st = "addrErr"

\* C12: when the address of the request cannot be parsed the server writes
\* a ReqResp of type AddrUnsupported and then closes the connection
C12_AddrErrorReplied ==
    AddrParseFailed =>
        /\ srvWrites # <<>>
        /\ LastReply.st = "ok"
        /\ LastReply.Type = ProxyAddrUnsupported
        /\ srvClosed

\* the server closed the connection after an addrError with no reply: its
\* only write is the Select of the method negotiation
C12_Witness_ClosedWithoutReply ==
    /\ AddrParseFailed
    /\ srvClosed
    /\ srvWrites = <<socksSelect_WritePacket(socksNoAuth)>>

(***************************************************************************)
(* Success and Fail of an emitted request                                  *)
(***************************************************************************)

\* the writes of the server that are a whole socksReqResp
Replies == {i \in 1..Len(srvWrites) :
               socksReqResp_ReadPacket(srvWrites[i], TRUE).st = "ok"}

\* two Addresses denote the same endpoint: same kind, same port, same name,
\* and IPs equal as net.IP.Equal has it (4-byte and 16-byte forms of an IPv4
\* address are equal)
SameAddr(a, b) ==
    /\ a.type = b.type
    /\ a.port = b.port
    /\ a.name = b.name
    /\ To16(a.ip) = To16(b.ip)

\* C13: for an emitted request the server writes no ReqResp before Success
\* or Fail is called; Success writes one ReqResp of type 0 with the bound
\* address and leaves the connection open; Fail writes one ReqResp whose
\* type is the error kind, with address 0.0.0.0:0, and closes the connection
C13_ReplyOnlyBySuccessOrFail ==
    /\ srvCall.fn # "none" => emitted
    /\ (emitted /\ srvCall.fn = "none") => Replies = {}
    /\ srvCall.fn = "Success" =>
          /\ Replies = {Len(srvWrites)}
          /\ LastReply.Type = socksSuccess
          /\ SameAddr(LastReply.Addr, srvCall.addr)
          /\ LastReply.used = Len(srvWrites[Len(srvWrites)])
          /\ ~srvClosed
    /\ srvCall.fn = "Fail" =>
          /\ Replies = {Len(srvWrites)}
          /\ LastReply.Type = srvCall.errType
          /\ SameAddr(LastReply.Addr, ZeroAddr)
          /\ LastReply.used = Len(srvWrites[Len(srvWrites)])
          /\ srvClosed

\* Fail was called with NotAllowed after a handshake with authentication:
\* the reply is the third write of the server
C13_Witness_FailReplied ==
    /\ srvCall.fn = "Fail"
    /\ srvCall.errType = ProxyNotAllowed
    /\ Len(srvWrites) = 3
    /\ srvClosed

(***************************************************************************)
(* Errors of the handshake                                                 *)
(***************************************************************************)

\* handshake is over: it sent cli on reqCh or closed cli.conn
HandshakeOver == sPc \in {"done", "emitted", "replied"}

\* the Hello offers the method handshake requires
MethodOffered ==
    \E i \in 1..Len(helloPkt.Methods) : helloPkt.Methods[i] = RequiredMethod

\* every read of handshake succeeded and the packets passed its tests: the
\* Hello and its methods, the user name and password, the CONNECT request
StepsSucceeded ==
    /\ ~server.simplified => (helloPkt.read /\ MethodOffered)
    /\ (~server.simplified /\ server.checkUser) =>
          (authPkt.read /\ CheckUser(authPkt.Username, authPkt.Password))
    /\ reqPkt.st = "ok"
    /\ reqPkt.Type = socksConnect

\* C14: an error at any step of handshake before the request is emitted
\* (Hello, method selection, authentication, request, peer identifiers)
\* ends with the connection closed and no request emitted; a request is
\* emitted only after every step succeeded, with its connection open
C14_ErrorClosesWithoutEmission ==
    /\ emitted =>
          /\ StepsSucceeded
          /\ targetAddr = reqPkt.Addr
          /\ srvCall.fn = "none" => (~srvClosed /\ sPc = "emitted")
    /\ (HandshakeOver /\ ~StepsSucceeded) =>
          (srvClosed /\ ~emitted /\ sPc = "done")
    /\ (HandshakeOver /\ ~emitted) => (srvClosed /\ sPc = "done")
    /\ (sPc \in {"emitted", "replied"}) => emitted

\* GetPeerIdentifiers failed after a CONNECT request was read: the
\* connection is closed and nothing was emitted
C14_Witness_PeerIDError ==
    /\ StepsSucceeded
    /\ sPc = "done"
    /\ srvClosed
    /\ ~emitted
    /\ ~netDown

(***************************************************************************)
(* What Request returns                                                    *)
(***************************************************************************)

\* Request of a SOCKS5Client returned what doRequest delivered, over a
\* connection that did not break
RequestAnswered ==
    /\ client.kind = "SOCKS5Client"
    /\ cPc = "returned"
    /\ ~netDown

\* C15: when the server side answers with Fail(k), Request returns a
\* ProxyError of kind k and no stream; when it answers with Success(a),
\* Request returns the bound address a and the open stream
C15_ReplyReachesClient ==
    /\ (RequestAnswered /\ srvCall.fn = "Fail") =>
          /\ cResult = srvCall.errType
          /\ cliClosed
          /\ cBound = NilAddr
    /\ (RequestAnswered /\ srvCall.fn = "Success") =>
          /\ cResult = 0
          /\ SameAddr(cBound, srvCall.addr)
          /\ ~cliClosed
          /\ ~srvClosed

\* NotAllowed passed to Fail came out of Request
C15_Witness_NotAllowedReturned ==
    /\ RequestAnswered
    /\ srvCall.fn = "Fail"
    /\ srvCall.errType = ProxyNotAllowed
    /\ cResult = ProxyNotAllowed

\* the kinds of ProxyError: the five ProxyErrorType constants
ProxyErrorTypes ==
    {ProxyGeneralErr, ProxyNotAllowed, ProxyConnectFailed, ProxyCmdUnsupported,
     ProxyAddrUnsupported}

\* Request of a SOCKS5Client returned a ProxyError
RequestReturnedError ==
    /\ client.kind = "SOCKS5Client"
    /\ cPc \in {"returned", "cancelled", "dialFailed"}
    /\ cResult # 0

\* C16: every ProxyError Request returns has one of the five kinds, whatever
\* reply byte the server sent
C16_KindIsOneOfFive == RequestReturnedError => cResult \in ProxyErrorTypes

\* Request returned a ProxyError whose ErrType is the reply byte 4
C16_Witness_KindOutsideTheFive ==
    /\ RequestReturnedError
    /\ cResult = socksHostUnreachable
    /\ LastReply.Type = socksHostUnreachable

\* C17: when the dial of an upstream client to its server fails, the
\* ProxyError it returns has kind ConnectFailed
C17_DialFailureIsConnectFailed ==
    cPc = "dialFailed" => cResult = ProxyConnectFailed

\* the dial of a SOCKS5Client failed and Request returned GeneralErr
C17_Witness_DialFailureIsGeneralErr ==
    /\ cPc = "dialFailed"
    /\ cResult = ProxyGeneralErr
    /\ sPc = "none"

(***************************************************************************)
(* The codec: WritePacket, then ReadPacket on what was written             *)
(***************************************************************************)

\* WritePacket of a packet of any of the five kinds
WritePacket(p) ==
    IF p.kind = "Hello" THEN socksHello_WritePacket(p.Methods)
    ELSE IF p.kind = "Select"
    THEN [st |-> "ok", bytes |-> socksSelect_WritePacket(p.Method)]
    ELSE IF p.kind = "UserPassReq"
    THEN socksUserPassReq_WritePacket(p.Username, p.Password)
    ELSE IF p.kind = "UserPassResp"
    THEN [st |-> "ok", bytes |-> socksUserPassResp_WritePacket(p.Status)]
    ELSE LET w == socksReqResp_WritePacket(p.Type, p.Addr) IN
         [st |-> IF w.st = "ok" THEN "ok" ELSE "err", bytes |-> w.bytes]

\* ReadPacket on a zero packet of the given kind
ReadPacket(kind, in, eof) ==
    LET zero == [NoPacket EXCEPT !.kind = kind] IN
    IF kind = "Hello"
    THEN LET r == socksHello_ReadPacket(in, eof) IN
         [st |-> r.st, pkt |-> [zero EXCEPT !.Methods = r.Methods],
          used |-> r.used]
    ELSE IF kind = "Select"
    THEN LET r == socksSelect_ReadPacket(in, eof) IN
         [st |-> r.st, pkt |-> [zero EXCEPT !.Method = r.Method],
          used |-> r.used]
    ELSE IF kind = "UserPassReq"
    THEN LET r == socksUserPassReq_ReadPacket(in, eof) IN
         [st |-> r.st,
          pkt |-> [zero EXCEPT !.Username = r.Username,
                               !.Password = r.Password],
          used |-> r.used]
    ELSE IF kind = "UserPassResp"
    THEN LET r == socksUserPassResp_ReadPacket(in, eof) IN
         [st |-> r.st, pkt |-> [zero EXCEPT !.Status = r.Status],
          used |-> r.used]
    ELSE LET r == socksReqResp_ReadPacket(in, eof) IN
         [st |-> r.st, pkt |-> [zero EXCEPT !.Type = r.Type, !.Addr = r.Addr],
          used |-> r.used]

\* the longest Methods of the packets checked, but for the over-long ones
MaxMethods == 2

MethodBytes == {socksNoAuth, socksUserPass, socksNoAcceptable}

RECURSIVE MethodSeqs(_)
MethodSeqs(n) ==
    IF n = 0 THEN {<<>>}
    ELSE MethodSeqs(n - 1) \cup
         {Append(m, b) : m \in MethodSeqs(n - 1), b \in MethodBytes}

\* a string of n bytes
LongString(n) == [i \in 1..n |-> 120]

\* the addresses of the socksReqResp packets checked: the three kinds, IPv4
\* in its 4-byte and 16-byte forms, the shortest and longest names and the
\* largest port, and addresses WritePacket refuses
CodecAddrs ==
    ClientAddrs \cup
    {BoundAddr, ZeroAddr, NilAddr,
     [ZeroAddr EXCEPT !.ip = V4InV6Prefix \o <<127, 0, 0, 1>>, !.port = 65535],
     [TCP6Target EXCEPT !.ip = <<10, 0, 1, 2>>],
     [DomainTarget EXCEPT !.name = <<>>],
     [DomainTarget EXCEPT !.name = LongString(255), !.port = 256]}

Packets ==
    {[NoPacket EXCEPT !.kind = "Hello", !.Methods = m] :
        m \in MethodSeqs(MaxMethods) \cup {LongString(255), LongString(256)}}
    \cup {[NoPacket EXCEPT !.kind = "Select", !.Method = b] : b \in MethodBytes}
    \cup {[NoPacket EXCEPT !.kind = "UserPassReq", !.Username = u, !.Password = q] :
            u \in Strings(MaxCredLen) \cup {LongString(255), LongString(256)},
            q \in Strings(MaxCredLen) \cup {LongString(256)}}
    \cup {[NoPacket EXCEPT !.kind = "UserPassResp", !.Status = b] : b \in BOOLEAN}
    \cup {[NoPacket EXCEPT !.kind = "ReqResp", !.Type = t, !.Addr = a] :
            t \in {socksSuccess, socksConnect, ProxyAddrUnsupported,
                   socksNoAcceptable},
            a \in CodecAddrs}

\* what may follow a packet on the stream
Tails == {<<>>, <<socksVersion, socksConnect>>}

CodecInit ==
    /\ mConfig = [n \in {} |-> DefaultRule]
    /\ brt = EmptyBrt
    /\ visited = {}
    /\ keys = <<>>
    /\ panicked = FALSE
    /\ lastQuery = NoQuery
    /\ lastResult = NoResult
    /\ req = NoReq
    /\ RelayIdle
    /\ SocksIdle
    /\ PoolIdle
    /\ RestIdle
    /\ packet \in Packets
    /\ wire = <<>>
    /\ reader = <<>>
    /\ newPkt = NoNewPkt
    /\ codecPc = "new"

\* c.packet.WritePacket(buf), and the reader set on the bytes
CodecWritePacket(tail) ==
    /\ codecPc = "new"
    /\ LET w == WritePacket(packet) IN
       IF w.st = "ok"
       THEN /\ wire' = w.bytes
            /\ reader' = w.bytes \o tail
            /\ codecPc' = "written"
       ELSE /\ codecPc' = "writeErr"
            /\ UNCHANGED <<wire, reader>>
    /\ UNCHANGED <<matcherVars, relayVars, socksVars, poolVars, restVars,
                   packet, newPkt>>

\* c.newPkt.ReadPacket(reader)
CodecReadPacket ==
    /\ codecPc = "written"
    /\ LET r == ReadPacket(packet.kind, reader, TRUE) IN
       /\ newPkt' = r
       /\ reader' = Drop(reader, r.used)
    /\ codecPc' = "read"
    /\ UNCHANGED <<matcherVars, relayVars, socksVars, poolVars, restVars,
                   packet, wire>>

\* c.newPkt.ReadPacket(io.LimitReader(reader, n)) for an n below the length
\* of the written bytes: reader becomes the n bytes the limit lets through
CodecReadLimited(n) ==
    /\ codecPc = "written"
    /\ n < Len(wire)
    /\ newPkt' = ReadPacket(packet.kind, SubSeq(wire, 1, n), TRUE)
    /\ reader' = SubSeq(wire, 1, n)
    /\ codecPc' = "readLimited"
    /\ UNCHANGED <<matcherVars, relayVars, socksVars, poolVars, restVars,
                   packet, wire>>

CodecNext ==
    \/ \E tail \in Tails : CodecWritePacket(tail)
    \/ CodecReadPacket
    \/ \E n \in 0..(Len(wire) - 1) : CodecReadLimited(n)

SpecCodec == CodecInit /\ [][CodecNext]_vars

\* two packets are equal: field by field, addresses as SameAddr has it
SamePacket(p, q) ==
    /\ p.kind = q.kind
    /\ p.Methods = q.Methods
    /\ p.Method = q.Method
    /\ p.Username = q.Username
    /\ p.Password = q.Password
    /\ p.Status = q.Status
    /\ p.Type = q.Type
    /\ SameAddr(p.Addr, q.Addr)

\* C18: for every packet WritePacket accepts, ReadPacket on the written
\* bytes succeeds, yields a packet equal to the original and consumes
\* exactly the written bytes
C18_CodecRoundTrip ==
    codecPc = "read" =>
        /\ newPkt.st = "ok"
        /\ SamePacket(newPkt.pkt, packet)
        /\ newPkt.used = Len(wire)
        /\ reader \in Tails

\* a socksReqResp with a domain name and port 256 was read back, with
\* bytes of a next packet left on the stream
C18_Witness_DomainReadBack ==
    /\ codecPc = "read"
    /\ packet.kind = "ReqResp"
    /\ packet.Addr.type = "Domain"
    /\ packet.Addr.port = 256
    /\ reader # <<>>

(***************************************************************************)
(* preConnMgr: Dial, Epoch and runPreConn as goroutines                    *)
(***************************************************************************)

idlePreConnPoolSize == 2

\* the largest max_pool_size
MaxPoolCap == 2

\* the calls of Dial, the calls of Epoch, the connections the transport
\* makes, and the runPreConn goroutines of one expectedPoolSize that wait
MaxDials == 2

MaxEpochs == 1

MaxConns == 3

MaxRunWaiting == 1

ringVars == <<pool, poolBegin, poolNext>>

dialVars == <<dialPc, dialConn, handedConns, dials>>

epochVars ==
    <<epochPc, connsToDrop, epochPoolSize, droppedConns, epochs, shouldAfter>>

runVars == <<preConnMtx, runPc, runExpected, runI, runConn>>

\* what no step of a preConnMgr changes
poolFrame ==
    <<matcherVars, relayVars, socksVars, codecVars, restVars, poolCap>>

\* newPreConnMgr, with the ticker goroutine and the callers of Dial ready
PoolInit ==
    /\ mConfig = [n \in {} |-> DefaultRule]
    /\ brt = EmptyBrt
    /\ visited = {}
    /\ keys = <<>>
    /\ panicked = FALSE
    /\ lastQuery = NoQuery
    /\ lastResult = NoResult
    /\ req = NoReq
    /\ RelayIdle
    /\ SocksIdle
    /\ CodecIdle
    /\ RestIdle
    /\ poolCap \in 1..MaxPoolCap
    /\ pool = [i \in 1..(poolCap + 1) |-> 0]
    /\ poolBegin = 0
    /\ poolNext = 0
    /\ poolMtx = 0
    /\ preConnMtx = 0
    /\ dialPc = [d \in Dialers |-> "idle"]
    /\ dialConn = [d \in Dialers |-> 0]
    /\ epochPc = "idle"
    /\ connsToDrop = <<>>
    /\ epochPoolSize = 0
    /\ runWaiting = [e \in {idlePreConnPoolSize, poolCap} |-> 0]
    /\ runPc = "none"
    /\ runExpected = 0
    /\ runI = 0
    /\ runConn = 0
    /\ nextConn = 0
    /\ droppedConns = {}
    /\ handedConns = <<>>
    /\ poolPanic = FALSE
    /\ dials = 0
    /\ epochs = 0
    /\ shouldAfter = 0

\* cap(m.pool)
CapPool == Len(pool)

poolSizeUnsafe ==
    LET size == poolNext - poolBegin IN
    IF size < 0 THEN size + CapPool ELSE size

\* a Lock that does not wait for the mutex to be free
SpinMutex_Lock_NoSpin == poolMtx' = 1

\* SpinMutex.Lock: the CompareAndSwap(0, 1) that succeeds; while it fails the
\* caller yields and tries again
SpinMutex_Lock == poolMtx = 0 /\ poolMtx' = 1

\* SpinMutex.Unlock: CompareAndSwap(1, 0), and a panic when it fails
SpinMutex_Unlock ==
    IF poolMtx = 1
    THEN poolMtx' = 0 /\ UNCHANGED poolPanic
    ELSE poolPanic' = TRUE /\ UNCHANGED poolMtx

\* go m.runPreConn(expectedPoolSize)
GoRunPreConn(expectedPoolSize) ==
    /\ runWaiting[expectedPoolSize] < MaxRunWaiting
    /\ runWaiting' = [runWaiting EXCEPT ![expectedPoolSize] = @ + 1]

\* a caller enters preConnMgr.Dial
DialCall(d) ==
    /\ ~poolPanic
    /\ dialPc[d] = "idle"
    /\ dials < MaxDials
    /\ dials' = dials + 1
    /\ dialPc' = [dialPc EXCEPT ![d] = "lock"]
    /\ UNCHANGED <<poolFrame, ringVars, epochVars, runVars, poolMtx, runWaiting,
                   nextConn, poolPanic, dialConn, handedConns>>

\* Dial: m.poolMtx.Lock()
DialLock(d) ==
    /\ ~poolPanic
    /\ dialPc[d] = "lock"
    /\ SpinMutex_Lock
    /\ dialPc' = [dialPc EXCEPT ![d] = "take"]
    /\ UNCHANGED <<poolFrame, ringVars, epochVars, runVars, runWaiting,
                   nextConn, poolPanic, dialConn, handedConns, dials>>

\* a Dial that takes the connection pushed last, not the one at poolBegin
DialTake_Newest(d) ==
    /\ ~poolPanic
    /\ dialPc[d] = "take"
    /\ IF poolBegin = poolNext
       THEN /\ dialPc' = [dialPc EXCEPT ![d] = "unlock"]
            /\ UNCHANGED <<dialConn, poolPanic>>
       ELSE /\ dialConn' =
                  [dialConn EXCEPT
                     ![d] = pool[((poolNext + CapPool - 1) % CapPool) + 1]]
            /\ dialPc' = [dialPc EXCEPT ![d] = "pop"]
            /\ UNCHANGED poolPanic
    /\ UNCHANGED <<poolFrame, ringVars, epochVars, runVars, poolMtx, runWaiting,
                   nextConn, handedConns, dials>>

\* Dial: the test of the ring buffer and conn = m.pool[m.poolBegin].conn,
\* which panics on a nil slot
DialTake(d) ==
    /\ ~poolPanic
    /\ dialPc[d] = "take"
    /\ IF poolBegin = poolNext
       THEN /\ dialPc' = [dialPc EXCEPT ![d] = "unlock"]
            /\ UNCHANGED <<dialConn, poolPanic>>
       ELSE IF pool[poolBegin + 1] = 0
            THEN /\ poolPanic' = TRUE
                 /\ UNCHANGED <<dialConn, dialPc>>
            ELSE /\ dialConn' = [dialConn EXCEPT ![d] = pool[poolBegin + 1]]
                 /\ dialPc' = [dialPc EXCEPT ![d] = "pop"]
                 /\ UNCHANGED poolPanic
    /\ UNCHANGED <<poolFrame, ringVars, epochVars, runVars, poolMtx, runWaiting,
                   nextConn, handedConns, dials>>

\* Dial: m.pool[m.poolBegin] = nil and the advance of poolBegin
DialPop(d) ==
    /\ ~poolPanic
    /\ dialPc[d] = "pop"
    /\ pool' = [pool EXCEPT ![poolBegin + 1] = 0]
    /\ poolBegin' = (poolBegin + 1) % CapPool
    /\ dialPc' = [dialPc EXCEPT ![d] = "unlock"]
    /\ UNCHANGED <<poolFrame, poolNext, epochVars, runVars, poolMtx, runWaiting,
                   nextConn, poolPanic, dialConn, handedConns, dials>>

\* Dial: m.poolMtx.Unlock()
DialUnlock(d) ==
    /\ ~poolPanic
    /\ dialPc[d] = "unlock"
    /\ SpinMutex_Unlock
    /\ dialPc' = [dialPc EXCEPT ![d] = "return"]
    /\ UNCHANGED <<poolFrame, ringVars, epochVars, runVars, runWaiting,
                   nextConn, dialConn, handedConns, dials>>

\* Dial from "if conn == nil" to its return: a pooled conn is returned; when
\* starved a runPreConn is started and the transport dials, with or without
\* success
DialReturn(d, dialOk) ==
    /\ ~poolPanic
    /\ dialPc[d] = "return"
    /\ IF dialConn[d] # 0
       THEN /\ handedConns' = Append(handedConns, dialConn[d])
            /\ UNCHANGED <<runWaiting, nextConn>>
       ELSE /\ GoRunPreConn(poolCap)
            /\ dialOk => nextConn < MaxConns
            /\ nextConn' = IF dialOk THEN nextConn + 1 ELSE nextConn
            /\ UNCHANGED handedConns
    /\ dialConn' = [dialConn EXCEPT ![d] = 0]
    /\ dialPc' = [dialPc EXCEPT ![d] = "idle"]
    /\ UNCHANGED <<poolFrame, ringVars, epochVars, runVars, poolMtx, poolPanic,
                   dials>>

\* runPreConn: the test of expectedPoolSize panics
RunPanic(e) ==
    /\ ~poolPanic
    /\ runWaiting[e] > 0
    /\ e > poolCap
    /\ poolPanic' = TRUE
    /\ UNCHANGED <<poolFrame, ringVars, dialVars, epochVars, runVars, poolMtx,
                   runWaiting, nextConn>>

\* runPreConn: m.preConnMtx.Lock()
RunStart(e) ==
    /\ ~poolPanic
    /\ runWaiting[e] > 0
    /\ e <= poolCap
    /\ preConnMtx = 0
    /\ preConnMtx' = 1
    /\ runWaiting' = [runWaiting EXCEPT ![e] = @ - 1]
    /\ runExpected' = e
    /\ runPc' = "lock1"
    /\ UNCHANGED <<poolFrame, ringVars, dialVars, epochVars, poolMtx, nextConn,
                   poolPanic, runI, runConn>>

\* runPreConn: the first m.poolMtx.Lock()
RunLock1 ==
    /\ ~poolPanic
    /\ runPc = "lock1"
    /\ SpinMutex_Lock
    /\ runPc' = "size"
    /\ UNCHANGED <<poolFrame, ringVars, dialVars, epochVars, runWaiting,
                   nextConn, poolPanic, preConnMtx, runExpected, runI, runConn>>

\* runPreConn with i starting at 0 whatever the pool holds
RunPoolSize_FromZero ==
    /\ ~poolPanic
    /\ runPc = "size"
    /\ runI' = 0
    /\ runPc' = "unlock1"
    /\ UNCHANGED <<poolFrame, ringVars, dialVars, epochVars, runWaiting,
                   nextConn, poolPanic, poolMtx, preConnMtx, runExpected,
                   runConn>>

\* runPreConn: poolSize := m.poolSizeUnsafe(), the first value of i
RunPoolSize ==
    /\ ~poolPanic
    /\ runPc = "size"
    /\ runI' = poolSizeUnsafe
    /\ runPc' = "unlock1"
    /\ UNCHANGED <<poolFrame, ringVars, dialVars, epochVars, runWaiting,
                   nextConn, poolPanic, poolMtx, preConnMtx, runExpected,
                   runConn>>

\* runPreConn: the first m.poolMtx.Unlock()
RunUnlock1 ==
    /\ ~poolPanic
    /\ runPc = "unlock1"
    /\ SpinMutex_Unlock
    /\ runPc' = "loop"
    /\ UNCHANGED <<poolFrame, ringVars, dialVars, epochVars, runWaiting,
                   nextConn, preConnMtx, runExpected, runI, runConn>>

\* runPreConn: the test of the loop and the Dial of the transport; the loop
\* ends when i reaches expectedPoolSize or the Dial fails
RunDial(dialOk) ==
    /\ ~poolPanic
    /\ runPc = "loop"
    /\ IF runI < runExpected /\ dialOk
       THEN /\ nextConn < MaxConns
            /\ nextConn' = nextConn + 1
            /\ runConn' = nextConn + 1
            /\ runPc' = "lock2"
       ELSE /\ runPc' = "exit"
            /\ UNCHANGED <<nextConn, runConn>>
    /\ UNCHANGED <<poolFrame, ringVars, dialVars, epochVars, runWaiting,
                   poolPanic, poolMtx, preConnMtx, runExpected, runI>>

\* runPreConn: m.poolMtx.Lock() in the loop
RunLock2 ==
    /\ ~poolPanic
    /\ runPc = "lock2"
    /\ SpinMutex_Lock
    /\ runPc' = "push"
    /\ UNCHANGED <<poolFrame, ringVars, dialVars, epochVars, runWaiting,
                   nextConn, poolPanic, preConnMtx, runExpected, runI, runConn>>

\* runPreConn: m.pool[m.poolNext] = &preConn{...}
RunPush ==
    /\ ~poolPanic
    /\ runPc = "push"
    /\ pool' = [pool EXCEPT ![poolNext + 1] = runConn]
    /\ runPc' = "advance"
    /\ UNCHANGED <<poolFrame, poolBegin, poolNext, dialVars, epochVars,
                   runWaiting, nextConn, poolPanic, poolMtx, preConnMtx,
                   runExpected, runI, runConn>>

\* runPreConn: m.poolNext = (m.poolNext + 1) % cap(m.pool)
RunAdvance ==
    /\ ~poolPanic
    /\ runPc = "advance"
    /\ poolNext' = (poolNext + 1) % CapPool
    /\ runConn' = 0
    /\ runPc' = "unlock2"
    /\ UNCHANGED <<poolFrame, pool, poolBegin, dialVars, epochVars, runWaiting,
                   nextConn, poolPanic, poolMtx, preConnMtx, runExpected, runI>>

\* runPreConn: m.poolMtx.Unlock() in the loop, and i++
RunUnlock2 ==
    /\ ~poolPanic
    /\ runPc = "unlock2"
    /\ SpinMutex_Unlock
    /\ runI' = runI + 1
    /\ runPc' = "loop"
    /\ UNCHANGED <<poolFrame, ringVars, dialVars, epochVars, runWaiting,
                   nextConn, preConnMtx, runExpected, runConn>>

\* runPreConn returns: the deferred m.preConnMtx.Unlock()
RunExit ==
    /\ ~poolPanic
    /\ runPc = "exit"
    /\ preConnMtx' = 0
    /\ runPc' = "none"
    /\ runExpected' = 0
    /\ runI' = 0
    /\ UNCHANGED <<poolFrame, ringVars, dialVars, epochVars, runWaiting,
                   nextConn, poolPanic, poolMtx, runConn>>

\* establishedTime is time.Now() at the push of runPreConn, and the pushes
\* follow the order in which the transport made the connections: the number
\* of a connection stands for its establishedTime. A time is the number of
\* the youngest pooled connection stamped at or before it, 0 with none.
Stamped == {0} \cup {pool[i] : i \in 1..Len(pool)}

\* an Epoch to which every connection is expired
Expired_Always(c) == TRUE

\* !m.pool[m.poolBegin].establishedTime.After(shouldAfter)
Expired(c) == c <= shouldAfter

\* the ticker goroutine enters Epoch: shouldAfter := now - preConnLifetime
EpochCall ==
    /\ ~poolPanic
    /\ epochPc = "idle"
    /\ epochs < MaxEpochs
    /\ epochs' = epochs + 1
    /\ shouldAfter' \in Stamped
    /\ epochPc' = "lock"
    /\ UNCHANGED <<poolFrame, ringVars, dialVars, runVars, poolMtx, runWaiting,
                   nextConn, poolPanic, connsToDrop, epochPoolSize,
                   droppedConns>>

\* Epoch: m.poolMtx.Lock()
EpochLock ==
    /\ ~poolPanic
    /\ epochPc = "lock"
    /\ SpinMutex_Lock
    /\ epochPc' = "loop"
    /\ UNCHANGED <<poolFrame, ringVars, dialVars, runVars, runWaiting,
                   nextConn, poolPanic, connsToDrop, epochPoolSize,
                   droppedConns, epochs, shouldAfter>>

\* Epoch: one turn of its loop. An expired connection at poolBegin is
\* appended to connsToDrop and popped; the loop ends at the first one that
\* is not expired. Reading a nil slot panics.
EpochLoop ==
    /\ ~poolPanic
    /\ epochPc = "loop"
    /\ IF poolBegin = poolNext
       THEN /\ epochPc' = "size"
            /\ UNCHANGED <<ringVars, connsToDrop, poolPanic>>
       ELSE IF pool[poolBegin + 1] = 0
            THEN /\ poolPanic' = TRUE
                 /\ UNCHANGED <<ringVars, connsToDrop, epochPc>>
            ELSE IF Expired(pool[poolBegin + 1])
                 THEN /\ connsToDrop' = Append(connsToDrop, pool[poolBegin + 1])
                      /\ pool' = [pool EXCEPT ![poolBegin + 1] = 0]
                      /\ poolBegin' = (poolBegin + 1) % CapPool
                      /\ UNCHANGED <<poolNext, epochPc, poolPanic>>
                 ELSE /\ epochPc' = "size"
                      /\ UNCHANGED <<ringVars, connsToDrop, poolPanic>>
    /\ UNCHANGED <<poolFrame, dialVars, runVars, poolMtx, runWaiting, nextConn,
                   epochPoolSize, droppedConns, epochs, shouldAfter>>

\* Epoch: poolSize := m.poolSizeUnsafe()
EpochPoolSize ==
    /\ ~poolPanic
    /\ epochPc = "size"
    /\ epochPoolSize' = poolSizeUnsafe
    /\ epochPc' = "unlock"
    /\ UNCHANGED <<poolFrame, ringVars, dialVars, runVars, poolMtx, runWaiting,
                   nextConn, poolPanic, connsToDrop, droppedConns, epochs, shouldAfter>>

\* Epoch: m.poolMtx.Unlock()
EpochUnlock ==
    /\ ~poolPanic
    /\ epochPc = "unlock"
    /\ SpinMutex_Unlock
    /\ epochPc' = "after"
    /\ UNCHANGED <<poolFrame, ringVars, dialVars, runVars, runWaiting,
                   nextConn, connsToDrop, epochPoolSize, droppedConns, epochs, shouldAfter>>

\* Epoch after the Unlock: the expired connections are closed, and a
\* runPreConn is started when the pool is below idlePreConnPoolSize and
\* below its capacity
EpochAfter ==
    /\ ~poolPanic
    /\ epochPc = "after"
    /\ droppedConns' =
          droppedConns \cup {connsToDrop[i] : i \in 1..Len(connsToDrop)}
    /\ connsToDrop' = <<>>
    /\ IF epochPoolSize < idlePreConnPoolSize /\ epochPoolSize < poolCap
       THEN GoRunPreConn(idlePreConnPoolSize)
       ELSE UNCHANGED runWaiting
    /\ epochPoolSize' = 0
    /\ shouldAfter' = 0
    /\ epochPc' = "idle"
    /\ UNCHANGED <<poolFrame, ringVars, dialVars, runVars, poolMtx, nextConn,
                   poolPanic, epochs>>

PoolNext ==
    \/ \E d \in Dialers :
          \/ DialCall(d)
          \/ DialLock(d)
          \/ DialTake(d)
          \/ DialPop(d)
          \/ DialUnlock(d)
          \/ \E dialOk \in BOOLEAN : DialReturn(d, dialOk)
    \/ \E e \in DOMAIN runWaiting : RunPanic(e) \/ RunStart(e)
    \/ RunLock1
    \/ RunPoolSize
    \/ RunUnlock1
    \/ \E dialOk \in BOOLEAN : RunDial(dialOk)
    \/ RunLock2
    \/ RunPush
    \/ RunAdvance
    \/ RunUnlock2
    \/ RunExit
    \/ EpochCall
    \/ EpochLock
    \/ EpochLoop
    \/ EpochPoolSize
    \/ EpochUnlock
    \/ EpochAfter

SpecPool == PoolInit /\ [][PoolNext]_vars

\* the connections in the slots of the ring buffer
Pooled == {pool[i] : i \in 1..Len(pool)} \ {0}

\* the slots of the ring buffer from poolBegin up to poolNext
UsedSlots ==
    {((poolBegin + k) % CapPool) + 1 : k \in 0..(poolSizeUnsafe - 1)}

\* C19: the pool never holds more connections than its capacity, so that a
\* push never lands on a slot in use: the slots in use are the ones from
\* poolBegin up to poolNext, and the one being pushed
C19_PoolWithinCapacity ==
    /\ poolSizeUnsafe <= poolCap
    /\ Cardinality({i \in 1..Len(pool) : pool[i] # 0}) <= poolCap
    /\ {i \in 1..Len(pool) : pool[i] # 0} =
          UsedSlots \cup (IF runPc = "advance" THEN {poolNext + 1} ELSE {})
    /\ runPc = "advance" => (poolNext + 1) \notin UsedSlots

\* the pool was filled again up to its capacity after Dial took a
\* connection out of it
C19_Witness_PoolFull ==
    /\ poolCap = idlePreConnPoolSize
    /\ poolSizeUnsafe = poolCap
    /\ handedConns # <<>>

\* C20: a pooled connection is handed to at most one caller of Dial, and a
\* connection Epoch dropped is handed to none
C20_HandedOnceNeverDropped ==
    /\ \A i, j \in 1..Len(handedConns) :
          handedConns[i] = handedConns[j] => i = j
    /\ \A d1, d2 \in Dialers :
          (d1 # d2 /\ dialConn[d1] # 0) => dialConn[d1] # dialConn[d2]
    /\ \A i \in 1..Len(handedConns) :
          /\ handedConns[i] \notin droppedConns
          /\ \A j \in 1..Len(connsToDrop) : handedConns[i] # connsToDrop[j]
          /\ handedConns[i] \notin Pooled
    /\ \A d \in Dialers :
          dialConn[d] # 0 =>
            /\ dialConn[d] \notin droppedConns
            /\ \A j \in 1..Len(connsToDrop) : dialConn[d] # connsToDrop[j]

\* Dial handed out a pooled connection and Epoch dropped another
C20_Witness_OneHandedOneDropped ==
    /\ Len(handedConns) = 1
    /\ droppedConns # {}
    /\ poolMtx = 0

(***************************************************************************)
(* KCPTransport: the inner framing of kcpConnWrapper                       *)
(*                                                                         *)
(* Time is kept as the time that has passed: lastSend and lastBlockStart   *)
(* are 0 where the code stores 0, and 1 + (now - the stored time)          *)
(* otherwise, so storing time.Now() is storing 1.                          *)
(***************************************************************************)
kcpDataPacket == 0
kcpClose == 1
kcpKeepAlive == 2

\* the frames the peer writes
MaxPeerFrames == 2
\* len(b) of a Write
MaxWriteLen == 2
\* the sizes of the buffers given to Read
ReadLens == {1, 2}

PayloadBytes == {1, 2}

Payloads == UNION {[1..n -> PayloadBytes] : n \in 1..MaxWriteLen}

Min2(a, b) == IF a <= b THEN a ELSE b

\* binary.BigEndian.PutUint32
PutUint32(n) ==
    <<(n \div 16777216) % 256, (n \div 65536) % 256, (n \div 256) % 256,
      n % 256>>

\* binary.BigEndian.Uint32
Uint32(h) == h[1] * 16777216 + h[2] * 65536 + h[3] * 256 + h[4]

\* what Write gives to UDPSession.Write for b
kcpDataFrame(b) == <<kcpDataPacket>> \o PutUint32(Len(b)) \o b

kcpConfig == <<keepAlive, kcpInterval, kcpTimeout>>
kcpClock == <<tickIn, peerTickIn, idleFor>>
kcpDial == <<kcpDialPc, dialGoPc>>
kcpReadSide == <<readPc, readLen, readRes, delivered, sawEOF>>
kcpPeerSide == <<kcpPeer, peerWritten, peerFrames, peerLastSend>>
kcpSenders == <<writePc, closePc, kaPc>>
kcpFrame ==
    <<matcherVars, relayVars, socksVars, codecVars, poolVars, afterKcpVars,
      kcpConfig>>

\* the matcher variables when no matcher is modelled
MatcherIdle ==
    /\ mConfig = [n \in {} |-> DefaultRule]
    /\ brt = EmptyBrt
    /\ visited = {}
    /\ keys = <<>>
    /\ panicked = FALSE
    /\ lastQuery = NoQuery
    /\ lastResult = NoResult
    /\ req = NoReq

\* a wrapper as wrapKCPConn leaves it, on a transport without keepalive,
\* with the peer and the reading application ready
KcpInit ==
    /\ MatcherIdle
    /\ RelayIdle
    /\ SocksIdle
    /\ CodecIdle
    /\ PoolIdle
    /\ AfterKcpIdle
    /\ keepAlive = FALSE
    /\ conns = {}
    /\ kcpInterval = 0
    /\ kcpTimeout = 0
    /\ session = "open"
    /\ lastSend = 1
    /\ lastBlockStart = 0
    /\ rdDataLeft = 0
    /\ inbound = <<>>
    /\ kcpPeer = "open"
    /\ peerWritten = <<>>
    /\ peerFrames = 0
    /\ readPc = "idle"
    /\ readLen = 0
    /\ readRes = "none"
    /\ delivered = <<>>
    /\ sawEOF = FALSE
    /\ writePc = "none"
    /\ closePc = [w \in Closers |-> "none"]
    /\ kaPc = <<>>
    /\ kcpDialPc = "none"
    /\ dialGoPc = "none"
    /\ evicted = FALSE
    /\ tickIn = 0
    /\ peerTickIn = 0
    /\ peerLastSend = 1
    /\ idleFor = 0

\* the peer's Write(b): one DATA frame reaches the session
KcpPeerWrite(b) ==
    /\ kcpPeer = "open"
    /\ session = "open"
    /\ peerFrames < MaxPeerFrames
    /\ inbound' = inbound \o kcpDataFrame(b)
    /\ peerWritten' = peerWritten \o b
    /\ peerFrames' = peerFrames + 1
    /\ peerLastSend' = 1
    /\ idleFor' = 0
    /\ UNCHANGED <<kcpFrame, tickIn, peerTickIn, kcpDial, kcpReadSide,
                   kcpSenders, kcpPeer, conns, session, lastSend,
                   lastBlockStart, rdDataLeft, evicted>>

\* the peer's sendKeepAlive
KcpPeerKeepAlive ==
    /\ kcpPeer = "open"
    /\ session = "open"
    /\ peerFrames < MaxPeerFrames
    /\ inbound' = inbound \o <<kcpKeepAlive>>
    /\ peerFrames' = peerFrames + 1
    /\ peerLastSend' = 1
    /\ UNCHANGED <<kcpFrame, kcpClock, kcpDial, kcpReadSide, kcpSenders,
                   kcpPeer, peerWritten, conns, session, lastSend,
                   lastBlockStart, rdDataLeft, evicted>>

\* the peer's Close, whose CLOSE frame arrives
KcpPeerClose ==
    /\ kcpPeer = "open"
    /\ session = "open"
    /\ inbound' = inbound \o <<kcpClose>>
    /\ kcpPeer' = "closed"
    /\ peerLastSend' = 0
    /\ UNCHANGED <<kcpFrame, kcpClock, kcpDial, kcpReadSide, kcpSenders,
                   peerWritten, peerFrames, conns, session, lastSend,
                   lastBlockStart, rdDataLeft, evicted>>

\* Read(b) is called and enters its first c.read
KcpReadCall(n) ==
    /\ readPc = "idle"
    /\ readLen' = n
    /\ readPc' = IF rdDataLeft = 0 THEN "header" ELSE "data"
    /\ lastBlockStart' = 1
    /\ UNCHANGED <<kcpFrame, kcpClock, kcpDial, kcpPeerSide, kcpSenders,
                   readRes, delivered, sawEOF, conns, session, lastSend,
                   rdDataLeft, inbound, evicted>>

\* c.read(header[:1]) returns the type of the next frame
KcpReadHeader ==
    /\ readPc = "header"
    /\ inbound # <<>>
    /\ inbound' = Tail(inbound)
    /\ LET type == Head(inbound)
       IN  CASE type = kcpClose ->
                    /\ lastSend' = 0
                    /\ readRes' = "EOF"
                    /\ sawEOF' = TRUE
                    /\ readPc' = "idle"
                    /\ lastBlockStart' = 0
              [] type \in {kcpDataPacket, kcpKeepAlive} ->
                    /\ readPc' = IF type = kcpDataPacket THEN "length"
                                                          ELSE "header"
                    /\ lastBlockStart' = 1
                    /\ UNCHANGED <<lastSend, readRes, sawEOF>>
              [] OTHER ->
                    /\ readRes' = "invalid"
                    /\ readPc' = "idle"
                    /\ lastBlockStart' = 0
                    /\ UNCHANGED <<lastSend, sawEOF>>
    /\ UNCHANGED <<kcpFrame, kcpClock, kcpDial, kcpPeerSide, kcpSenders,
                   readLen, delivered, conns, session,
                   rdDataLeft, evicted>>

\* c.read(header[:]) returns n bytes, and the length is taken from header
KcpReadLength(n) ==
    /\ readPc = "length"
    /\ n \in 1..Min2(4, Len(inbound))
    /\ LET header == [i \in 1..4 |-> IF i <= n THEN inbound[i] ELSE 0]
       IN  rdDataLeft' = Uint32(header)
    /\ inbound' = Drop(inbound, n)
    /\ readPc' = IF rdDataLeft' = 0 THEN "header" ELSE "data"
    /\ lastBlockStart' = 1
    /\ UNCHANGED <<kcpFrame, kcpClock, kcpDial, kcpPeerSide, kcpSenders,
                   readLen, readRes, delivered, sawEOF, conns,
                   session, lastSend, evicted>>

\* c.read(b) returns n bytes of the payload
KcpReadData(n) ==
    /\ readPc = "data"
    /\ n \in 1..Min2(Min2(readLen, rdDataLeft), Len(inbound))
    /\ delivered' = delivered \o SubSeq(inbound, 1, n)
    /\ inbound' = Drop(inbound, n)
    /\ rdDataLeft' = rdDataLeft - n
    /\ readRes' = "data"
    /\ readPc' = "idle"
    /\ lastBlockStart' = 0
    /\ UNCHANGED <<kcpFrame, kcpClock, kcpDial, kcpPeerSide, kcpSenders,
                   readLen, sawEOF, conns, session, lastSend,
                   evicted>>

KcpNext ==
    \/ \E b \in Payloads : KcpPeerWrite(b)
    \/ KcpPeerKeepAlive
    \/ KcpPeerClose
    \/ \E n \in ReadLens : KcpReadCall(n)
    \/ KcpReadHeader
    \/ \E n \in 1..4 : KcpReadLength(n)
    \/ \E n \in 1..MaxWriteLen : KcpReadData(n)

SpecKcp == KcpInit /\ [][KcpNext]_vars

\* C21: whatever the peer wrote with Write and then closed, the Reads
\* return the written bytes in their order and nothing else, no Read fails,
\* and end-of-stream is returned only after all of them, however the session
\* splits the bytes over its reads and wherever keepalive frames stand
\* between the frames
C21_ReadsReturnWhatWasWritten ==
    /\ IsPrefix(delivered, peerWritten)
    /\ readRes # "invalid"
    /\ readRes = "EOF" => delivered = peerWritten /\ kcpPeer = "closed"

\* the session returned one byte of a length to c.read(header[:]), and the
\* reader took a byte of the length for the type of a frame
C21_Witness_LengthSplit ==
    /\ peerFrames = 1
    /\ Len(peerWritten) = 1
    /\ sawEOF
    /\ delivered = <<>>
    /\ kcpPeer = "open"

\* C22: after a Read returned io.EOF for a CLOSE frame, no Read is waiting
\* in c.read for bytes of the session, and every Read that returned since
\* returned io.EOF
C22_EOFIsSticky ==
    sawEOF => /\ readPc = "idle"
              /\ readRes = "EOF"

\* a Read called after the end-of-stream waits for a byte of a session
\* whose peer has closed
C22_Witness_ReadAfterEOFWaits ==
    /\ sawEOF
    /\ kcpPeer = "closed"
    /\ delivered = peerWritten
    /\ readPc = "header"
    /\ inbound = <<>>
    /\ lastBlockStart # 0

(***************************************************************************)
(* KCPTransport: Dial, the senders of a wrapper and the keepalive manager  *)
(***************************************************************************)
\* the goroutines the manager has started in sendKeepAlive at one time
MaxKeepAliveCalls == 1
\* the positions of a goroutine in sendKeepAlive
KaPositions == {"start", "stored"}

\* the positions of a Read inside c.read
InRead == {"header", "length", "data"}

\* now - t for a stored time t
Since(t) == t - 1

\* a stored time after one more unit of time, kept up to the last value the
\* comparisons of the manager tell apart
Older(t, limit) == IF t = 0 THEN 0 ELSE Min2(t + 1, limit + 2)

\* the wrapper, as an element of t.conns
wrapped == "wrapped"

KaCount == kaPc["start"] + kaPc["stored"]

\* NewKCPTransport with both keepalive options, before the first Dial; the
\* unit of time is the period of the manager's ticker, kcpInterval / 4
KeepAliveInit ==
    /\ MatcherIdle
    /\ RelayIdle
    /\ SocksIdle
    /\ CodecIdle
    /\ PoolIdle
    /\ AfterKcpIdle
    /\ keepAlive = TRUE
    /\ conns = {}
    /\ kcpInterval = 4
    /\ kcpTimeout = 6
    /\ session = "none"
    /\ lastSend = 0
    /\ lastBlockStart = 0
    /\ rdDataLeft = 0
    /\ inbound = <<>>
    /\ kcpPeer = "none"
    /\ peerWritten = <<>>
    /\ peerFrames = 0
    /\ readPc = "none"
    /\ readLen = 0
    /\ readRes = "none"
    /\ delivered = <<>>
    /\ sawEOF = FALSE
    /\ writePc = "none"
    /\ closePc = [w \in Closers |-> "none"]
    /\ kaPc = [p \in KaPositions |-> 0]
    /\ kcpDialPc = "idle"
    /\ dialGoPc = "none"
    /\ evicted = FALSE
    /\ tickIn = 0
    /\ peerTickIn = 0
    /\ peerLastSend = 0
    /\ idleFor = 0

\* Dial is called and starts its goroutine
KcpDialCall ==
    /\ kcpDialPc = "idle"
    /\ kcpDialPc' = "waiting"
    /\ dialGoPc' = "dialling"
    /\ UNCHANGED <<kcpFrame, kcpClock, kcpReadSide, kcpPeerSide, kcpSenders,
                   conns, session, lastSend, lastBlockStart, rdDataLeft,
                   inbound, evicted>>

\* the owner of the context cancels it while Dial waits in its select
KcpCtxCancel ==
    /\ kcpDialPc = "waiting"
    /\ kcpDialPc' = "cancelled"
    /\ UNCHANGED <<kcpFrame, kcpClock, kcpReadSide, kcpPeerSide, kcpSenders,
                   dialGoPc, conns, session, lastSend, lastBlockStart,
                   rdDataLeft, inbound, evicted>>

\* the goroutine of Dial: kcp.DialWithOptions returns, a session is wrapped
\* by wrapKCPConn, and the result is sent on resultCh, which has room for it
KcpDialGoroutine(ok) ==
    /\ dialGoPc = "dialling"
    /\ IF ok
       THEN /\ session' = "open"
            /\ lastSend' = 1
            /\ conns' = IF keepAlive THEN conns \cup {wrapped} ELSE conns
            /\ kcpPeer' = "open"
            /\ peerLastSend' = 1
            /\ dialGoPc' = "sent"
       ELSE /\ dialGoPc' = "failed"
            /\ UNCHANGED <<session, lastSend, conns, kcpPeer, peerLastSend>>
    /\ UNCHANGED <<kcpFrame, kcpClock, kcpReadSide, kcpSenders, kcpDialPc,
                   peerWritten, peerFrames, lastBlockStart, rdDataLeft,
                   inbound, evicted>>

\* Dial's select takes the result, also when the context is done as well:
\* the application has the connection, or the error of the dial
KcpDialReturn ==
    /\ kcpDialPc \in {"waiting", "cancelled"}
    /\ dialGoPc \in {"sent", "failed"}
    /\ IF dialGoPc = "sent"
       THEN /\ kcpDialPc' = "conn"
            /\ readPc' = "idle"
            /\ writePc' = "idle"
            /\ closePc' = [closePc EXCEPT !["app"] = "idle"]
       ELSE /\ kcpDialPc' = "err"
            /\ UNCHANGED <<readPc, writePc, closePc>>
    /\ UNCHANGED <<kcpFrame, kcpClock, kcpPeerSide, dialGoPc, readLen,
                   readRes, delivered, sawEOF, kaPc, conns, session,
                   lastSend, lastBlockStart, rdDataLeft, inbound, evicted>>

\* Dial's select takes ctx.Done() and returns ctx.Err()
KcpDialCtxDone ==
    /\ kcpDialPc = "cancelled"
    /\ kcpDialPc' = "ctxErr"
    /\ UNCHANGED <<kcpFrame, kcpClock, kcpReadSide, kcpPeerSide, kcpSenders,
                   dialGoPc, conns, session, lastSend, lastBlockStart,
                   rdDataLeft, inbound, evicted>>

\* UDPSession.Read returns an error to a c.read on a closed session
KcpReadFails ==
    /\ readPc \in InRead
    /\ session = "closed"
    /\ readRes' = "error"
    /\ readPc' = "idle"
    /\ lastBlockStart' = 0
    /\ UNCHANGED <<kcpFrame, kcpClock, kcpDial, kcpPeerSide, kcpSenders,
                   readLen, delivered, sawEOF, conns, session,
                   lastSend, rdDataLeft, inbound, evicted>>

\* Write: the time of the send is stored
KcpWriteStore ==
    /\ writePc = "idle"
    /\ lastSend' = 1
    /\ writePc' = "stored"
    /\ UNCHANGED <<kcpFrame, kcpClock, kcpDial, kcpReadSide, kcpPeerSide,
                   closePc, kaPc, conns, session, lastBlockStart, rdDataLeft,
                   inbound, evicted>>

\* Write: UDPSession.Write returns; after an error the application writes
\* no more
KcpWriteSend ==
    /\ writePc = "stored"
    /\ writePc' = IF session = "open" THEN "idle" ELSE "failed"
    /\ UNCHANGED <<kcpFrame, kcpClock, kcpDial, kcpReadSide, kcpPeerSide,
                   closePc, kaPc, conns, session, lastSend, lastBlockStart,
                   rdDataLeft, inbound, evicted>>

\* Close: 0 is stored in lastSend
KcpCloseStore(w) ==
    /\ closePc[w] = "idle"
    /\ lastSend' = 0
    /\ closePc' = [closePc EXCEPT ![w] = "stored"]
    /\ UNCHANGED <<kcpFrame, kcpClock, kcpDial, kcpReadSide, kcpPeerSide,
                   writePc, kaPc, conns, session, lastBlockStart, rdDataLeft,
                   inbound, evicted>>

\* Close: the CLOSE frame is written and the UDPSession is closed
KcpCloseSession(w) ==
    /\ closePc[w] = "stored"
    /\ session' = "closed"
    /\ closePc' = [closePc EXCEPT ![w] = "done"]
    /\ UNCHANGED <<kcpFrame, kcpClock, kcpDial, kcpReadSide, kcpPeerSide,
                   writePc, kaPc, conns, lastSend, lastBlockStart,
                   rdDataLeft, inbound, evicted>>

\* a goroutine moves from one position of sendKeepAlive to the next
KaMove(from, to) ==
    [p \in KaPositions |->
        IF p = from /\ p # to THEN kaPc[p] - 1
        ELSE IF p = to /\ p # from THEN kaPc[p] + 1
        ELSE kaPc[p]]

\* a goroutine of sendKeepAlive ends
KaEnd(from) == [kaPc EXCEPT ![from] = kaPc[from] - 1]

\* sendKeepAlive: the time of the send is stored
KcpKaStore ==
    /\ kaPc["start"] > 0
    /\ lastSend' = 1
    /\ kaPc' = KaMove("start", "stored")
    /\ UNCHANGED <<kcpFrame, kcpClock, kcpDial, kcpReadSide, kcpPeerSide,
                   writePc, closePc, conns, session, lastBlockStart,
                   rdDataLeft, inbound, evicted>>

\* sendKeepAlive: UDPSession.Write returns; on an error, which only a closed
\* session gives, Close stores 0 in lastSend and closes the session again
KcpKaWrite ==
    /\ kaPc["stored"] > 0
    /\ kaPc' = KaEnd("stored")
    /\ lastSend' = IF session = "open" THEN lastSend ELSE 0
    /\ UNCHANGED <<kcpFrame, kcpClock, kcpDial, kcpReadSide, kcpPeerSide,
                   writePc, closePc, conns, session, lastBlockStart,
                   rdDataLeft, inbound, evicted>>

\* the manager starts a goroutine in sendKeepAlive
KaSpawn == [kaPc EXCEPT !["start"] = kaPc["start"] + 1]

\* runKeepAliveManager as it would be if it only ever sent keepalives
ManagerWalk_NeverRemoves(ls, lbs) ==
    /\ IF wrapped \in conns /\ ls # 0 /\ Since(ls) > kcpInterval
          /\ KaCount < MaxKeepAliveCalls
       THEN kaPc' = KaSpawn
       ELSE UNCHANGED kaPc
    /\ UNCHANGED <<conns, closePc, evicted>>

\* runKeepAliveManager as it would be if it compared the time a read has
\* been blocked with the interval
ManagerWalk_EvictsByInterval(ls, lbs) ==
    IF wrapped \notin conns
    THEN UNCHANGED <<conns, closePc, evicted, kaPc>>
    ELSE IF ls = 0
    THEN /\ conns' = conns \ {wrapped}
         /\ UNCHANGED <<closePc, evicted, kaPc>>
    ELSE IF lbs > 0 /\ Since(lbs) > kcpInterval
    THEN /\ conns' = conns \ {wrapped}
         /\ closePc' = [closePc EXCEPT !["manager"] = "idle"]
         /\ evicted' = TRUE
         /\ UNCHANGED kaPc
    ELSE IF Since(ls) > kcpInterval /\ KaCount < MaxKeepAliveCalls
    THEN /\ kaPc' = KaSpawn
         /\ UNCHANGED <<conns, closePc, evicted>>
    ELSE UNCHANGED <<conns, closePc, evicted, kaPc>>

\* runKeepAliveManager: the walk through t.conns of one tick, with the
\* lastSend and lastBlockStart it loads
ManagerWalk(ls, lbs) ==
    IF wrapped \notin conns
    THEN UNCHANGED <<conns, closePc, evicted, kaPc>>
    ELSE IF ls = 0
    THEN /\ conns' = conns \ {wrapped}
         /\ UNCHANGED <<closePc, evicted, kaPc>>
    ELSE IF lbs > 0 /\ Since(lbs) > kcpTimeout
    THEN /\ conns' = conns \ {wrapped}
         /\ closePc' = [closePc EXCEPT !["manager"] = "idle"]
         /\ evicted' = TRUE
         /\ UNCHANGED kaPc
    ELSE IF Since(ls) > kcpInterval /\ KaCount < MaxKeepAliveCalls
    THEN /\ kaPc' = KaSpawn
         /\ UNCHANGED <<conns, closePc, evicted>>
    ELSE UNCHANGED <<conns, closePc, evicted, kaPc>>

\* runKeepAliveManager: the ticker fires, kcpInterval / 4 after it fired
\* last, which is the unit of time here, and the list is walked
KcpManagerTick ==
    /\ keepAlive
    /\ lastSend' = Older(lastSend, kcpInterval)
    /\ lastBlockStart' = Older(lastBlockStart, kcpTimeout)
    /\ ManagerWalk(lastSend', lastBlockStart')
    /\ UNCHANGED <<kcpFrame, kcpClock, kcpDial, kcpReadSide, kcpPeerSide,
                   writePc, session, rdDataLeft, inbound>>

\* the peer is gone: nothing more arrives from it
KcpPeerLost ==
    /\ kcpPeer = "open"
    /\ kcpPeer' = "lost"
    /\ UNCHANGED <<kcpFrame, kcpClock, kcpDial, kcpReadSide, kcpSenders,
                   peerWritten, peerFrames, peerLastSend, conns, session,
                   lastSend, lastBlockStart, rdDataLeft, inbound, evicted>>

KeepAliveNext ==
    \/ KcpDialCall
    \/ KcpCtxCancel
    \/ \E ok \in BOOLEAN : KcpDialGoroutine(ok)
    \/ KcpDialReturn
    \/ KcpDialCtxDone
    \/ KcpReadCall(1)
    \/ KcpReadHeader
    \/ KcpReadFails
    \/ KcpWriteStore
    \/ KcpWriteSend
    \/ \E w \in Closers : KcpCloseStore(w)
    \/ \E w \in Closers : KcpCloseSession(w)
    \/ KcpKaStore
    \/ KcpKaWrite
    \/ KcpManagerTick
    \/ KcpPeerClose
    \/ KcpPeerLost

SpecKeepAlive == KeepAliveInit /\ [][KeepAliveNext]_vars

\* the goroutines of the transport and the calls in progress keep running
\* and the ticker keeps firing; that the application calls Read, Write or
\* Close, that the context is cancelled and what the peer does is not
\* assumed
FairKeepAlive ==
    /\ KeepAliveInit
    /\ [][KeepAliveNext]_vars
    /\ WF_vars(\E ok \in BOOLEAN : KcpDialGoroutine(ok))
    /\ WF_vars(KcpManagerTick)
    /\ WF_vars(KcpKaStore)
    /\ WF_vars(KcpKaWrite)
    /\ WF_vars(KcpCloseStore("manager"))
    /\ WF_vars(\E w \in Closers : KcpCloseSession(w))
    /\ WF_vars(KcpReadHeader)
    /\ WF_vars(KcpReadFails)
    /\ WF_vars(KcpWriteSend)

\* Close was called by the application and has stored its mark
LocallyClosed == closePc["app"] \in {"stored", "done"}

\* C23: a wrapper whose connection was closed, by Close, by a CLOSE frame
\* that Read returned as io.EOF, or by the manager for its timeout, is
\* removed from t.conns in the end
C23_ClosedIsRemoved ==
    (LocallyClosed \/ sawEOF \/ evicted) ~> (wrapped \notin conns)

\* the part of it for a connection the application closed itself
C23_LocallyClosedIsRemoved ==
    LocallyClosed ~> (wrapped \notin conns)

\* Read returned io.EOF for the peer's CLOSE and a send stored its time in
\* lastSend after Read had stored 0 there: the wrapper is listed as alive
C23_Witness_MarkOverwritten ==
    /\ sawEOF
    /\ wrapped \in conns
    /\ lastSend # 0
    /\ session = "open"
    /\ closePc["app"] = "idle"
    /\ KaCount = 0
    /\ writePc = "idle"

\* a Read is inside c.read and the session has no byte for it
ReadWaits == readPc \in InRead /\ inbound = <<>>

C26_CancelledDialLeavesNothing ==
    (kcpDialPc = "ctxErr" /\ dialGoPc # "dialling")
        => (session # "open" /\ wrapped \notin conns)

\* Dial returned ctx.Err(); the session its goroutine wrapped has been open
\* and listed for longer than the interval, kept alive by the manager
C26_Witness_SessionLeftBehind ==
    /\ kcpDialPc = "ctxErr"
    /\ dialGoPc = "sent"
    /\ session = "open"
    /\ wrapped \in conns
    /\ Since(lastSend) > kcpInterval

(***************************************************************************)
(* KCPTransport: an idle connection between two transports with keepalive, *)
(* with time counted in sixteenths of the interval.  Tickers fire on time, *)
(* started goroutines and the reading application run at once and frames  *)
(* arrive as they are sent: time passes only when none of them has a step  *)
(* to take.                                                                *)
(***************************************************************************)
\* the timeouts tried with the interval 16: from just above the interval to
\* three times the interval, as in the tests (50ms, 150ms)
TimedTimeouts == {17, 19, 20, 48}

\* an established connection with a wrapper at both ends, the application
\* about to call Read, and the two tickers at any phase
TimedInit ==
    /\ MatcherIdle
    /\ RelayIdle
    /\ SocksIdle
    /\ CodecIdle
    /\ PoolIdle
    /\ AfterKcpIdle
    /\ keepAlive = TRUE
    /\ conns = {wrapped}
    /\ kcpInterval = 16
    /\ kcpTimeout \in TimedTimeouts
    /\ session = "open"
    /\ lastSend = 1
    /\ lastBlockStart = 0
    /\ rdDataLeft = 0
    /\ inbound = <<>>
    /\ kcpPeer = "open"
    /\ peerWritten = <<>>
    /\ peerFrames = 0
    /\ readPc = "idle"
    /\ readLen = 0
    /\ readRes = "none"
    /\ delivered = <<>>
    /\ sawEOF = FALSE
    /\ writePc = "none"
    /\ closePc = [w \in Closers |-> "none"]
    /\ kaPc = [p \in KaPositions |-> 0]
    /\ kcpDialPc = "conn"
    /\ dialGoPc = "sent"
    /\ evicted = FALSE
    /\ tickIn \in 1..(kcpInterval \div 4)
    /\ peerTickIn \in 1..(kcpInterval \div 4)
    /\ peerLastSend = 1
    /\ idleFor = 0

\* runKeepAliveManager: the ticker fires when its period is over, and the
\* list is walked
KcpManagerTickOnTime ==
    /\ keepAlive
    /\ tickIn = 0
    /\ tickIn' = kcpInterval \div 4
    /\ ManagerWalk(lastSend, lastBlockStart)
    /\ UNCHANGED <<kcpFrame, peerTickIn, idleFor, kcpDial, kcpReadSide,
                   kcpPeerSide, writePc, session, lastSend, lastBlockStart,
                   rdDataLeft, inbound>>

\* runKeepAliveManager of the peer's transport: its ticker fires, and when
\* the peer's wrapper has sent nothing for longer than the interval its
\* sendKeepAlive writes a KEEPALIVE frame
KcpPeerManagerTick ==
    /\ kcpPeer = "open"
    /\ peerTickIn = 0
    /\ peerTickIn' = kcpInterval \div 4
    /\ IF peerLastSend # 0 /\ Since(peerLastSend) > kcpInterval
       THEN /\ peerLastSend' = 1
            /\ inbound' = inbound \o <<kcpKeepAlive>>
       ELSE UNCHANGED <<peerLastSend, inbound>>
    /\ UNCHANGED <<kcpFrame, tickIn, idleFor, kcpDial, kcpReadSide,
                   kcpSenders, kcpPeer, peerWritten, peerFrames, conns,
                   session, lastSend, lastBlockStart, rdDataLeft, evicted>>

\* the peer's application writes after it has written nothing for longer
\* than the timeout
KcpPeerWriteAfterIdle(b) ==
    /\ idleFor > kcpTimeout
    /\ KcpPeerWrite(b)

Pred(n) == IF n = 0 THEN 0 ELSE n - 1

\* something has a step to take now
KcpUrgent ==
    \/ tickIn = 0
    \/ peerTickIn = 0
    \/ KaCount > 0
    \/ \E w \in Closers : closePc[w] = "stored"
    \/ closePc["manager"] = "idle"
    \/ readPc = "idle"
    \/ readPc \in InRead /\ (inbound # <<>> \/ session = "closed")

\* one unit of time passes
KcpTimePasses ==
    /\ ~KcpUrgent
    /\ lastSend' = Older(lastSend, kcpInterval)
    /\ lastBlockStart' = Older(lastBlockStart, kcpTimeout)
    /\ peerLastSend' = Older(peerLastSend, kcpInterval)
    /\ idleFor' = Min2(idleFor + 1, kcpTimeout + 1)
    /\ tickIn' = Pred(tickIn)
    /\ peerTickIn' = Pred(peerTickIn)
    /\ UNCHANGED <<kcpFrame, kcpDial, kcpReadSide, kcpSenders, kcpPeer,
                   peerWritten, peerFrames, conns, session, rdDataLeft,
                   inbound, evicted>>

TimedNext ==
    \/ KcpTimePasses
    \/ KcpManagerTickOnTime
    \/ KcpPeerManagerTick
    \/ KcpKaStore
    \/ KcpKaWrite
    \/ KcpCloseStore("manager")
    \/ KcpCloseSession("manager")
    \/ KcpReadCall(1)
    \/ KcpReadHeader
    \/ KcpReadLength(4)
    \/ KcpReadData(1)
    \/ KcpReadFails
    \/ KcpPeerWriteAfterIdle(<<1>>)

SpecKeepAliveTimed == TimedInit /\ [][TimedNext]_vars

\* the manager has neither removed nor closed the wrapper, no Read has
\* failed, no read has been blocked for longer than the timeout, and what
\* the peer wrote after its idle time has been returned once the reader
\* waits again
HealthyIdle ==
    /\ ~evicted
    /\ wrapped \in conns
    /\ session = "open"
    /\ readRes \in {"none", "data"}
    /\ lastBlockStart > 0 => Since(lastBlockStart) <= kcpTimeout
    /\ IsPrefix(delivered, peerWritten)
    /\ (readPc = "header" /\ inbound = <<>>) => delivered = peerWritten

\* C24, as stated: with the interval shorter than the timeout an idle
\* healthy connection is never evicted
C24_IdleNeverEvicted ==
    kcpInterval < kcpTimeout => HealthyIdle

\* C24, amended: with a timeout of at least the interval plus one period of
\* the manager's ticker (a quarter of the interval) an idle healthy
\* connection is never evicted
C24_IdleNeverEvictedWithMargin ==
    kcpTimeout >= kcpInterval + kcpInterval \div 4 => HealthyIdle

\* with the timeout three times the interval, the peer wrote after an idle
\* time longer than the timeout, during which keepalives were exchanged,
\* and the reader has returned the byte and waits again
C24_Witness_DeliveredAfterIdle ==
    /\ kcpTimeout = 3 * kcpInterval
    /\ peerFrames = 1
    /\ delivered = <<1>>
    /\ readPc = "header"
    /\ inbound = <<>>
    /\ idleFor > kcpInterval
    /\ ~evicted

\* ---------------------------------------------------------------------------
\* Thestral.Run, processRequests and the SOCKS5 servers: who stops whom
\* (src/app.go 124-164, src/socks5.go 95-205)
\* ---------------------------------------------------------------------------

\* cap(s.reqCh): make(chan ProxyRequest, 1)
reqChCap == 1

appFrame ==
    <<matcherVars, relayVars, socksVars, codecVars, poolVars, kcpVars,
      afterAppVars>>

appRun == <<appRunPc, dsPending, wg>>
appServers == <<isRunning, listener, acceptPc>>
appClients == <<cliPc, cliDs, cliConn>>

\* NewThestral has built the downstream servers; Run is not called yet
AppInit ==
    /\ MatcherIdle
    /\ RelayIdle
    /\ SocksIdle
    /\ CodecIdle
    /\ PoolIdle
    /\ KcpIdle
    /\ AfterAppIdle
    /\ appCtxDone = FALSE
    /\ appRunPc = "idle"
    /\ dsPending = Downstreams
    /\ wg = 0
    /\ procPc = [d \in Downstreams |-> "none"]
    /\ isRunning = [d \in Downstreams |-> 0]
    /\ listener = [d \in Downstreams |-> "nil"]
    /\ acceptPc = [d \in Downstreams |-> "none"]
    /\ reqCh = [d \in Downstreams |-> <<>>]
    /\ cliPc = [c \in ClientIds |-> "none"]
    /\ cliDs = [c \in ClientIds |-> "none"]
    /\ cliConn = [c \in ClientIds |-> "none"]

\* app.Run(ctx) is called
AppRunCall ==
    /\ appRunPc = "idle"
    /\ appRunPc' = "loop"
    /\ UNCHANGED <<appFrame, appCtxDone, dsPending, wg, procPc, appServers,
                   reqCh, appClients>>

\* whoever holds the cancel function of ctx calls it
AppCtxCancel ==
    /\ ~appCtxDone
    /\ appCtxDone' = TRUE
    /\ UNCHANGED <<appFrame, appRun, procPc, appServers, reqCh, appClients>>

\* one turn of the range loop of Run: server.Start() (the order of a range
\* over a map is any), and on success wg.Add(1) and the goroutine; Start makes
\* the channel, listens, and on success sets isRunning and starts the accept
\* goroutine; when Listen fails Run returns the error at once
AppRunStart(d, ok) ==
    /\ appRunPc = "loop"
    /\ d \in dsPending
    /\ reqCh' = [reqCh EXCEPT ![d] = <<>>]
    /\ IF ok
       THEN /\ listener' = [listener EXCEPT ![d] = "open"]
            /\ isRunning' = [isRunning EXCEPT ![d] = 1]
            /\ acceptPc' = [acceptPc EXCEPT ![d] = "accept"]
            /\ wg' = wg + 1
            /\ procPc' = [procPc EXCEPT ![d] = "select"]
            /\ dsPending' = dsPending \ {d}
            /\ UNCHANGED appRunPc
       ELSE /\ appRunPc' = "err"
            /\ UNCHANGED <<listener, isRunning, acceptPc, wg, procPc,
                           dsPending>>
    /\ UNCHANGED <<appFrame, appCtxDone, appClients>>

\* the range loop is over: Run goes to wg.Wait()
AppRunWait ==
    /\ appRunPc = "loop"
    /\ dsPending = {}
    /\ appRunPc' = "wait"
    /\ UNCHANGED <<appFrame, appCtxDone, dsPending, wg, procPc, appServers,
                   reqCh, appClients>>

\* wg.Wait() returns and Run returns nil
AppRunReturn ==
    /\ appRunPc = "wait"
    /\ wg = 0
    /\ appRunPc' = "nil"
    /\ UNCHANGED <<appFrame, appCtxDone, dsPending, wg, procPc, appServers,
                   reqCh, appClients>>

\* the accept goroutine: Accept returns a connection and go s.handshake(req);
\* the clients come in the order of their numbers
SocksAccept(d, c) ==
    /\ acceptPc[d] = "accept"
    /\ listener[d] = "open"
    /\ cliPc[c] = "none"
    /\ \A b \in ClientIds : b < c => cliPc[b] # "none"
    /\ cliPc' = [cliPc EXCEPT ![c] = "handshake"]
    /\ cliDs' = [cliDs EXCEPT ![c] = d]
    /\ cliConn' = [cliConn EXCEPT ![c] = "open"]
    /\ UNCHANGED <<appFrame, appCtxDone, appRun, procPc, appServers, reqCh>>

\* the accept goroutine: Accept fails on the closed listener, the loop breaks
SocksAcceptError(d) ==
    /\ acceptPc[d] = "accept"
    /\ listener[d] = "closed"
    /\ acceptPc' = [acceptPc EXCEPT ![d] = "exited"]
    /\ UNCHANGED <<appFrame, appCtxDone, appRun, procPc, isRunning, listener,
                   reqCh, appClients>>

\* handshake up to the send: the packets are read and answered; with an error
\* the connection is closed, without one the task goes to s.reqCh <- cli
SocksHandshake(c, ok) ==
    /\ cliPc[c] = "handshake"
    /\ IF ok
       THEN /\ cliPc' = [cliPc EXCEPT ![c] = "send"]
            /\ UNCHANGED cliConn
       ELSE /\ cliPc' = [cliPc EXCEPT ![c] = "refused"]
            /\ cliConn' = [cliConn EXCEPT ![c] = "closed"]
    /\ UNCHANGED <<appFrame, appCtxDone, appRun, procPc, appServers, reqCh,
                   cliDs>>

\* s.reqCh <- cli goes through when the buffer has room; the handshake task
\* ends and the request, with its open connection, is in the channel
SocksHandshakeSend(c) ==
    /\ cliPc[c] = "send"
    /\ Len(reqCh[cliDs[c]]) < reqChCap
    /\ reqCh' = [reqCh EXCEPT ![cliDs[c]] = Append(@, c)]
    /\ cliPc' = [cliPc EXCEPT ![c] = "queued"]
    /\ UNCHANGED <<appFrame, appCtxDone, appRun, procPc, appServers, cliDs,
                   cliConn>>

\* processRequests, case req := <-reqCh: go t.processOneRequest(ctx, req)
AppReceive(d) ==
    /\ procPc[d] = "select"
    /\ reqCh[d] # <<>>
    /\ reqCh' = [reqCh EXCEPT ![d] = Tail(@)]
    /\ cliPc' = [cliPc EXCEPT ![Head(reqCh[d])] = "request"]
    /\ UNCHANGED <<appFrame, appCtxDone, appRun, procPc, appServers, cliDs,
                   cliConn>>

\* processRequests, case <-ctx.Done(): return
AppCtxDoneSeen(d) ==
    /\ procPc[d] = "select"
    /\ appCtxDone
    /\ procPc' = [procPc EXCEPT ![d] = "stop"]
    /\ UNCHANGED <<appFrame, appCtxDone, appRun, appServers, reqCh,
                   appClients>>

\* server.Stop(): isRunning is cleared and the listener closed
AppServerStop(d) ==
    /\ procPc[d] = "stop"
    /\ isRunning' = [isRunning EXCEPT ![d] = 0]
    /\ listener' = [listener EXCEPT ![d] = "closed"]
    /\ procPc' = [procPc EXCEPT ![d] = "wgDone"]
    /\ UNCHANGED <<appFrame, appCtxDone, appRun, acceptPc, reqCh, appClients>>

\* wg.Done(), and the goroutine ends
AppWgDone(d) ==
    /\ procPc[d] = "wgDone"
    /\ wg' = wg - 1
    /\ procPc' = [procPc EXCEPT ![d] = "exit"]
    /\ UNCHANGED <<appFrame, appCtxDone, appRunPc, dsPending, appServers,
                   reqCh, appClients>>

\* processOneRequest comes to its end: the request failed (req.Fail closes
\* the connection), or doRelay passed <-relayCtx.Done() and closed both sides;
\* the request context and the relay context are children of ctx
AppRequestEnds(c) ==
    /\ cliPc[c] = "request"
    /\ cliPc' = [cliPc EXCEPT ![c] = "over"]
    /\ cliConn' = [cliConn EXCEPT ![c] = "closed"]
    /\ UNCHANGED <<appFrame, appCtxDone, appRun, procPc, appServers, reqCh,
                   cliDs>>

\* the same, brought about by the cancelled ctx
AppRequestCancelled(c) ==
    /\ appCtxDone
    /\ AppRequestEnds(c)

AppNext ==
    \/ AppRunCall
    \/ AppCtxCancel
    \/ \E d \in Downstreams, ok \in BOOLEAN : AppRunStart(d, ok)
    \/ AppRunWait
    \/ AppRunReturn
    \/ \E d \in Downstreams, c \in ClientIds : SocksAccept(d, c)
    \/ \E d \in Downstreams : SocksAcceptError(d)
    \/ \E c \in ClientIds, ok \in BOOLEAN : SocksHandshake(c, ok)
    \/ \E c \in ClientIds : SocksHandshakeSend(c)
    \/ \E d \in Downstreams : AppReceive(d)
    \/ \E d \in Downstreams : AppCtxDoneSeen(d)
    \/ \E d \in Downstreams : AppServerStop(d)
    \/ \E d \in Downstreams : AppWgDone(d)
    \/ \E c \in ClientIds : AppRequestEnds(c)

SpecApp == AppInit /\ [][AppNext]_vars

\* the Go scheduler runs every goroutine that can run; a client that has
\* connected goes through its handshake; a task whose context is cancelled
\* comes to its end; nobody has to cancel ctx, and the select of
\* processRequests is free to take either case
FairApp ==
    /\ SpecApp
    /\ WF_vars(AppRunCall)
    /\ WF_vars(\E d \in Downstreams, ok \in BOOLEAN : AppRunStart(d, ok))
    /\ WF_vars(AppRunWait)
    /\ WF_vars(AppRunReturn)
    /\ WF_vars(\E d \in Downstreams : SocksAcceptError(d))
    /\ WF_vars(\E c \in ClientIds, ok \in BOOLEAN : SocksHandshake(c, ok))
    /\ WF_vars(\E c \in ClientIds : SocksHandshakeSend(c))
    /\ WF_vars(\E d \in Downstreams : AppCtxDoneSeen(d))
    /\ WF_vars(\E d \in Downstreams : AppServerStop(d))
    /\ WF_vars(\E d \in Downstreams : AppWgDone(d))
    /\ WF_vars(\E c \in ClientIds : AppRequestCancelled(c))

\* ---- C27

\* the downstream servers Run started are stopped and their goroutines over
ServersStopped ==
    \A d \in Downstreams : procPc[d] \in {"none", "exit"} /\ isRunning[d] = 0

\* a handshake or request task that still holds the open connection of c
HoldsConn(c) ==
    /\ cliPc[c] \in {"handshake", "send", "request"}
    /\ cliConn[c] = "open"

\* C27: once the context is cancelled and the downstream servers are stopped,
\* the handshake and request tasks come to an end: from some moment on none
\* of them holds an open client connection, and none is left blocked in the
\* send to reqCh
C27_NoTaskHoldsConnAfterScopeEnd ==
    (appCtxDone /\ ServersStopped)
        ~> [](\A c \in ClientIds : ~HoldsConn(c))

\* a handshake task is blocked in the send to a full channel that
\* processRequests has stopped reading, its client connection open
C27_Witness_BlockedInSend ==
    \E c \in ClientIds :
        /\ cliPc[c] = "send"
        /\ cliConn[c] = "open"
        /\ appCtxDone
        /\ ServersStopped
        /\ Len(reqCh[cliDs[c]]) = reqChCap

\* ---- C28

Returned == appRunPc \in {"nil", "err"}

\* C28: Run returns nil only after the context is cancelled; when Run has
\* returned, no server it started is still running; and once the context is
\* cancelled Stop is called on every server Run started
C28_RunStopsWhatItStarted ==
    /\ [](appRunPc = "nil" => appCtxDone)
    /\ [](Returned => \A d \in Downstreams : isRunning[d] = 0)
    /\ appCtxDone ~> (\A d \in Downstreams : isRunning[d] = 0)

\* the parts of C28 the code keeps: Stop is called on every started server
\* once the context is cancelled, and with every Start succeeding Run returns
\* only after the cancellation and after every server is stopped
C28_StopOnCancel ==
    appCtxDone ~> (\A d \in Downstreams : isRunning[d] = 0)

C28_WhenEveryStartSucceeds ==
    appRunPc = "nil" =>
        /\ appCtxDone
        /\ \A d \in Downstreams : isRunning[d] = 0 /\ listener[d] = "closed"

\* Run has returned the error of a failed Start while a server it started
\* before is running
C28_Witness_ReturnedWhileRunning ==
    /\ appRunPc = "err"
    /\ \E d \in Downstreams : isRunning[d] = 1 /\ listener[d] = "open"

\* ---------------------------------------------------------------------------
\* HTTPTunnelClient: the reply to CONNECT (src/http_tunnel.go 28-124)
\* ---------------------------------------------------------------------------

MaxHeaders == 1

\* the characters of the status field of the model: the digits and a letter
Digits == {"0", "1", "2", "3", "4", "5", "6", "7", "8", "9"}

StatusChars == Digits \cup {"x"}

DigitValue ==
    ("0" :> 0) @@ ("1" :> 1) @@ ("2" :> 2) @@ ("3" :> 3) @@ ("4" :> 4) @@
    ("5" :> 5) @@ ("6" :> 6) @@ ("7" :> 7) @@ ("8" :> 8) @@ ("9" :> 9)

\* hFields[1] of the model: three characters, the last two from a few
StatusFields ==
    {f \in [1..3 -> StatusChars] : f[2] \in {"0", "9", "x"} /\ f[3] \in {"0", "4", "9"}}

\* strconv.Atoi on an unsigned field: -1 stands for the error
RECURSIVE AtoiFrom(_, _)
AtoiFrom(f, acc) ==
    IF f = <<>> THEN acc
    ELSE IF Head(f) \notin Digits THEN -1
    ELSE AtoiFrom(Tail(f), 10 * acc + DigitValue[Head(f)])

Atoi(f) == AtoiFrom(f, 0)

\* the proxy servers of the model: whether the server accepts the connection,
\* takes the request and sends a first line, the number of fields of that
\* line and its second field, the header lines that follow, and whether the
\* empty line that ends the headers arrives before the connection ends
HttpReplies ==
    [accepts : BOOLEAN, reads : BOOLEAN, heading : BOOLEAN, fields : 0..3,
     status : StatusFields, headers : 0..MaxHeaders, ended : BOOLEAN]

\* the *ProxyError of the model: not yet there, nil, or one with an ErrType;
\* ReadHeaders is the heading after which readResponse reads on
NoProxyError == [is |-> "none", ErrType |-> 0]
NilError == [is |-> "nil", ErrType |-> 0]
ProxyError(t) == [is |-> "error", ErrType |-> t]
ReadHeaders == [is |-> "headers", ErrType |-> 0]

httpFrame ==
    <<matcherVars, relayVars, socksVars, codecVars, poolVars, kcpVars, appVars,
      afterHttpVars>>

\* CreateProxyClient has built the client; Request is not called yet
HttpInit ==
    /\ MatcherIdle
    /\ RelayIdle
    /\ SocksIdle
    /\ CodecIdle
    /\ PoolIdle
    /\ KcpIdle
    /\ AppIdle
    /\ AfterHttpIdle
    /\ httpReply \in HttpReplies
    /\ httpPc = "idle"
    /\ httpErr = NoProxyError
    /\ httpConn = "none"
    /\ httpLeft = 0

\* Request: TCPTransport{}.Dial; on an error Request returns ProxyGeneralErr
HttpDial ==
    /\ httpPc = "idle"
    /\ IF httpReply.accepts
       THEN /\ httpPc' = "send"
            /\ httpConn' = "open"
            /\ UNCHANGED httpErr
       ELSE /\ httpPc' = "returned"
            /\ httpErr' = ProxyError(ProxyGeneralErr)
            /\ UNCHANGED httpConn
    /\ UNCHANGED <<httpFrame, httpReply, httpLeft>>

\* the goroutine: sendRequest; a failed write is ProxyGeneralErr on errCh
HttpSendRequest ==
    /\ httpPc = "send"
    /\ IF httpReply.reads
       THEN /\ httpPc' = "heading"
            /\ UNCHANGED httpErr
       ELSE /\ httpPc' = "errCh"
            /\ httpErr' = ProxyError(ProxyGeneralErr)
    /\ UNCHANGED <<httpFrame, httpReply, httpConn, httpLeft>>

\* what readResponse makes of the first line it has read: with fewer than two
\* fields err is still nil, errors.WithMessage(nil, ...) is nil and
\* wrapAsProxyError(nil, ...) is nil; a field that is no number is
\* ProxyGeneralErr; a code other than 200 is an error of the type of its
\* hundreds; with 200 the headers are read
headingErr(r) ==
    LET code == Atoi(r.status) IN
    IF r.fields < 2 THEN NilError
    ELSE IF code = -1 THEN ProxyError(ProxyGeneralErr)
    ELSE IF code # 200
    THEN IF code \div 100 = 4 THEN ProxyError(ProxyCmdUnsupported)
         ELSE IF code \div 100 = 5 THEN ProxyError(ProxyConnectFailed)
         ELSE ProxyError(ProxyGeneralErr)
    ELSE ReadHeaders

\* readResponse: the first ReadLine and what follows from the heading
HttpReadHeading ==
    /\ httpPc = "heading"
    /\ httpReply.heading
    /\ IF headingErr(httpReply) = ReadHeaders
       THEN /\ httpPc' = "headers"
            /\ httpLeft' = httpReply.headers
            /\ UNCHANGED httpErr
       ELSE /\ httpPc' = "errCh"
            /\ httpErr' = headingErr(httpReply)
            /\ UNCHANGED httpLeft
    /\ UNCHANGED <<httpFrame, httpReply, httpConn>>

\* the first ReadLine fails: the server closed the connection
HttpReadHeadingFails ==
    /\ httpPc = "heading"
    /\ ~httpReply.heading
    /\ httpPc' = "errCh"
    /\ httpErr' = ProxyError(ProxyGeneralErr)
    /\ UNCHANGED <<httpFrame, httpReply, httpConn, httpLeft>>

\* readResponse, the loop that drops the headers: a header line is dropped,
\* the empty line ends it with nil, a failed ReadLine with ProxyGeneralErr
HttpDropHeader ==
    /\ httpPc = "headers"
    /\ IF httpLeft > 0
       THEN /\ httpLeft' = httpLeft - 1
            /\ UNCHANGED <<httpPc, httpErr>>
       ELSE /\ httpPc' = "errCh"
            /\ httpErr' = IF httpReply.ended THEN NilError
                          ELSE ProxyError(ProxyGeneralErr)
            /\ UNCHANGED httpLeft
    /\ UNCHANGED <<httpFrame, httpReply, httpConn>>

\* Request, case err := <-errCh: with an error the connection is closed and
\* the error returned, with nil the stream is returned
HttpRequestReturn ==
    /\ httpPc = "errCh"
    /\ httpPc' = "returned"
    /\ httpConn' = IF httpErr = NilError THEN "open" ELSE "closed"
    /\ UNCHANGED <<httpFrame, httpReply, httpErr, httpLeft>>

\* Request, case <-ctx.Done(): the connection is closed, ProxyGeneralErr
HttpCtxDone ==
    /\ httpPc \in {"send", "heading", "headers", "errCh"}
    /\ httpPc' = "cancelled"
    /\ httpErr' = ProxyError(ProxyGeneralErr)
    /\ httpConn' = "closed"
    /\ UNCHANGED <<httpFrame, httpReply, httpLeft>>

HttpNext ==
    \/ HttpDial
    \/ HttpSendRequest
    \/ HttpReadHeading
    \/ HttpReadHeadingFails
    \/ HttpDropHeader
    \/ HttpRequestReturn
    \/ HttpCtxDone

SpecHttp == HttpInit /\ [][HttpNext]_vars

\* ---- C29

\* Request has returned what readResponse made of a whole reply with a status
\* code: the request was sent, and the reply has a first line with a numeric
\* second field and the empty line after its headers
AnsweredWith(codes) ==
    /\ httpPc = "returned"
    /\ httpReply.accepts
    /\ httpReply.reads
    /\ httpReply.heading
    /\ httpReply.fields >= 2
    /\ httpReply.ended
    /\ Atoi(httpReply.status) \in codes

\* C29: the outcome of Request follows the status code of the reply: every
\* 2xx code gives success (nil and an open stream), every 4xx code
\* ProxyCmdUnsupported, every 5xx code ProxyConnectFailed, every other code
\* ProxyGeneralErr
C29_StatusCodeMapsToOutcome ==
    /\ AnsweredWith(200..299) => httpErr = NilError /\ httpConn = "open"
    /\ AnsweredWith(400..499) => httpErr = ProxyError(ProxyCmdUnsupported)
    /\ AnsweredWith(500..599) => httpErr = ProxyError(ProxyConnectFailed)
    /\ AnsweredWith((0..999) \ (200..599)) => httpErr = ProxyError(ProxyGeneralErr)

\* what the code does: of the 2xx codes only 200 is success, the others are
\* ProxyGeneralErr
C29_Only200IsSuccess ==
    /\ AnsweredWith({200}) => httpErr = NilError /\ httpConn = "open"
    /\ AnsweredWith(400..499) =>
           httpErr = ProxyError(ProxyCmdUnsupported) /\ httpConn = "closed"
    /\ AnsweredWith(500..599) =>
           httpErr = ProxyError(ProxyConnectFailed) /\ httpConn = "closed"
    /\ AnsweredWith((0..999) \ ({200} \cup (400..599))) =>
           httpErr = ProxyError(ProxyGeneralErr) /\ httpConn = "closed"

\* a 2xx reply other than 200 was read and Request returned an error
C29_Witness_204Refused ==
    /\ AnsweredWith({204})
    /\ httpErr = ProxyError(ProxyGeneralErr)
    /\ httpConn = "closed"

\* ---- C35

\* Request returned the stream: a nil error and the connection left open
HttpStreamReturned ==
    /\ httpPc = "returned"
    /\ httpErr = NilError
    /\ httpConn = "open"

\* Request has returned after readResponse read a first line
HttpHeadingRead ==
    /\ httpPc = "returned"
    /\ httpReply.accepts
    /\ httpReply.reads
    /\ httpReply.heading

\* C35: Request returns a stream only when the first line of the reply has
\* at least two fields of which the second is a number, a success code; a
\* first line with fewer than two fields, or with a second field that is no
\* number, gives ProxyGeneralErr and a closed connection
C35_StreamOnlyOnParsedSuccess ==
    /\ HttpStreamReturned =>
          /\ httpReply.heading
          /\ httpReply.fields >= 2
          /\ Atoi(httpReply.status) \in 200..299
    /\ (HttpHeadingRead /\
        (httpReply.fields < 2 \/ Atoi(httpReply.status) = -1)) =>
          /\ httpErr = ProxyError(ProxyGeneralErr)
          /\ httpConn = "closed"

\* what holds of it: a first line with two fields or more gives a stream only
\* with the code 200, and a second field that is no number gives
\* ProxyGeneralErr and a closed connection
C35_HoldsFromTwoFields ==
    /\ (HttpStreamReturned /\ httpReply.fields >= 2) =>
          /\ httpReply.heading
          /\ Atoi(httpReply.status) = 200
    /\ (HttpHeadingRead /\ httpReply.fields >= 2 /\
        Atoi(httpReply.status) = -1) =>
          /\ httpErr = ProxyError(ProxyGeneralErr)
          /\ httpConn = "closed"

\* the reply began with a line of one field and Request returned the stream
C35_Witness_StreamOnShortHeading ==
    /\ HttpStreamReturned
    /\ httpReply.heading
    /\ httpReply.fields = 1

\* ---------------------------------------------------------------------------
\* SOCKS5, simplified mode (src/socks5.go 78-93, 144-165, 362-368)
\* ---------------------------------------------------------------------------

\* b is one whole socksReqResp packet
IsReqResp(b) ==
    LET r == socksReqResp_ReadPacket(b, TRUE) IN
    r.st = "ok" /\ r.used = Len(b)

IsSuffix(a, b) ==
    Len(a) <= Len(b) /\ SubSeq(b, Len(b) - Len(a) + 1, Len(b)) = a

SimplifiedClient == client.kind = "SOCKS5Client" /\ client.Simplified

\* the CONNECT request doRequest writes for the address of the client
ConnectRequest == socksReqResp_WritePacket(socksConnect, client.addr)

\* a simplified server reads no Hello and no user/password request, never
\* calls checkUser, and writes nothing but socksReqResp packets
SimplifiedServerSkipsAuth ==
    server.simplified =>
        /\ sPc \notin {"hello", "auth"}
        /\ ~helloPkt.read
        /\ ~authPkt.read
        /\ checked = <<>>
        /\ \A i \in DOMAIN srvWrites : IsReqResp(srvWrites[i])

\* a simplified client waits for no Select and no authentication reply, and
\* what it has written is its CONNECT request and nothing else: the bytes the
\* server has not read yet are the end of that packet
SimplifiedClientSkipsAuth ==
    SimplifiedClient =>
        /\ cPc \notin {"readSelect", "readAuthResp"}
        /\ c2s # <<>> => ConnectRequest.st = "ok"
        /\ IsSuffix(c2s, ConnectRequest.bytes)

\* between a simplified client and a simplified server the first packet the
\* server reads is the CONNECT request of the client
FirstPacketIsConnect ==
    (server.simplified /\ SimplifiedClient /\ reqPkt.st = "ok") =>
        /\ reqPkt.Type = socksConnect
        /\ socksReqResp_WritePacket(reqPkt.Type, reqPkt.Addr) = ConnectRequest

\* C30: simplified mode and authentication exclude each other: no server has
\* both simplified and checkUser set, and in simplified mode neither side
\* writes or expects a Hello, a Select or a user/password packet; the first
\* packet on the connection is the CONNECT request of the client
C30_SimplifiedExcludesAuthentication ==
    /\ ~(server.simplified /\ server.checkUser)
    /\ SimplifiedServerSkipsAuth
    /\ SimplifiedClientSkipsAuth
    /\ FirstPacketIsConnect

\* a simplified client got its connection from a simplified server with two
\* packets on the wire: its request and the reply of Success
C30_Witness_SimplifiedRequestServed ==
    /\ server.simplified
    /\ SimplifiedClient
    /\ emitted
    /\ srvCall.fn = "Success"
    /\ Len(srvWrites) = 1
    /\ cResult = 0
    /\ cPc = "returned"

(***************************************************************************)
(* preConnMgr.Dial: the oldest pooled connection, or a refill              *)
(***************************************************************************)

\* the slot of the k-th connection of the ring buffer, counted from poolBegin
SlotOf(k) == ((poolBegin + k) % CapPool) + 1

\* the connection at poolBegin; the transport numbers its connections in the
\* order it makes them
OldestPooled == pool[poolBegin + 1]

\* the ring buffer holds its connections in the order they were made
PoolInOrder ==
    \A j, k \in 0..(poolSizeUnsafe - 1) :
        j < k => pool[SlotOf(j)] < pool[SlotOf(k)]

\* nothing has left the pool: no Dial has taken a connection and Epoch has
\* dropped none
NothingTaken ==
    /\ handedConns = <<>>
    /\ \A d \in Dialers : dialConn[d] = 0
    /\ droppedConns = {}
    /\ connsToDrop = <<>>

\* a runPreConn(m.poolCap) has left its loop with no Dial of the transport
\* failing
RefillDone ==
    /\ runPc = "exit"
    /\ runExpected = poolCap
    /\ runI >= runExpected

\* the step of Dial from "if conn == nil" to its return, the pool having
\* been empty
StarvedReturn(d) ==
    /\ dialPc[d] = "return"
    /\ dialPc'[d] = "idle"
    /\ dialConn[d] = 0

\* C31: a Dial that finds the pool non-empty takes the connection at
\* poolBegin, which is the oldest of the pool, the pool being in the order
\* of establishment; a Dial that finds it empty starts runPreConn(poolCap),
\* leaves the pool alone and dials the inner transport itself; and when
\* that runPreConn ends with no dial failing and nothing taken from the
\* pool, the pool holds exactly poolCap connections
C31_DialPopsOldestOrRefills ==
    /\ [](PoolInOrder /\
          \A d \in Dialers :
             dialPc[d] = "pop" =>
               /\ dialConn[d] = OldestPooled
               /\ \A c \in Pooled : dialConn[d] <= c)
    /\ [][\A d \in Dialers :
             StarvedReturn(d) =>
               /\ runWaiting'[poolCap] = runWaiting[poolCap] + 1
               /\ nextConn' \in {nextConn, nextConn + 1}
               /\ UNCHANGED <<ringVars, handedConns>>]_vars
    /\ []((RefillDone /\ NothingTaken /\ ~poolPanic) =>
             poolSizeUnsafe = poolCap)

\* a first Dial found the pool empty and dialled itself, runPreConn filled
\* the pool with two connections, and a second Dial takes the older one
C31_Witness_PopAfterRefill ==
    /\ \E d \in Dialers : dialPc[d] = "pop" /\ dialConn[d] = 2
    /\ poolSizeUnsafe = 2
    /\ nextConn = 3
    /\ epochs = 0

\* runPreConn(poolCap) has filled the pool of a starved Dial
C31_RefilledToCapacity ==
    /\ RefillDone
    /\ NothingTaken
    /\ dials > 0
    /\ poolSizeUnsafe = poolCap
    /\ poolCap = MaxPoolCap

(***************************************************************************)
(* preConnMgr.Epoch: expired connections dropped, the pool refilled        *)
(***************************************************************************)

\* the steps of the runPreConn goroutines
RunSteps ==
    \/ \E e \in DOMAIN runWaiting : RunPanic(e) \/ RunStart(e)
    \/ RunLock1
    \/ RunPoolSize
    \/ RunUnlock1
    \/ \E dialOk \in BOOLEAN : RunDial(dialOk)
    \/ RunLock2
    \/ RunPush
    \/ RunAdvance
    \/ RunUnlock2
    \/ RunExit

\* the steps of the ticker goroutine inside Epoch
EpochSteps ==
    \/ EpochLock
    \/ EpochLoop
    \/ EpochPoolSize
    \/ EpochUnlock
    \/ EpochAfter

\* a goroutine that can run does run: the runPreConn goroutines and the
\* ticker goroutine inside Epoch; nothing is assumed of the callers of Dial,
\* of the ticker or of the transport
FairPool == SpecPool /\ WF_vars(RunSteps) /\ WF_vars(EpochSteps)

\* Epoch has left its loop
EpochLoopDone == epochPc \in {"size", "unlock", "after"}

\* the elements of connsToDrop
ToDrop == {connsToDrop[i] : i \in 1..Len(connsToDrop)}

\* Epoch is at its test of poolSize with fewer than idlePreConnPoolSize
\* connections left, in a pool that can hold that many
EpochFoundFew ==
    /\ epochPc = "after"
    /\ epochPoolSize < idlePreConnPoolSize
    /\ idlePreConnPoolSize <= poolCap

\* no caller of Dial and no later Epoch takes connections from the pool
PoolLeftAlone ==
    /\ dials = MaxDials
    /\ \A d \in Dialers : dialPc[d] = "idle"
    /\ epochs = MaxEpochs

\* a Dial of runPreConn failed: it left its loop before i reached
\* expectedPoolSize
RunDialFailed == runPc = "exit" /\ runI < runExpected

\* no Dial has taken a connection from the pool
NoDialTook ==
    /\ handedConns = <<>>
    /\ \A d \in Dialers : dialConn[d] = 0

\* a runPreConn for at least idlePreConnPoolSize connections has left its
\* loop with no dial failing, no Epoch is under way and no other runPreConn
\* is waiting
RefillAfterEpochDone ==
    /\ runPc = "exit"
    /\ ~RunDialFailed
    /\ runExpected >= idlePreConnPoolSize
    /\ \A e \in DOMAIN runWaiting : runWaiting[e] = 0
    /\ epochPc = "idle"
    /\ epochs > 0

\* C32: once Epoch has left its loop no pooled connection is as old as
\* shouldAfter, and the connections it took out are exactly as old or older,
\* are out of the pool and are all closed when Epoch returns; Epoch's
\* poolSize is what remains; with fewer than 2 remaining in a pool that can
\* hold 2 it starts runPreConn(2), with 2 or more it starts none; and when
\* the refill has ended with no dial failing and no Dial has taken from the
\* pool, the pool holds at least 2 connections
C32_EpochDropsExpiredAndRefills ==
    /\ [](EpochLoopDone =>
            /\ \A c \in Pooled : ~Expired(c)
            /\ \A c \in ToDrop : Expired(c) /\ c \notin Pooled)
    /\ [](epochPc = "unlock" => epochPoolSize = poolSizeUnsafe)
    /\ [][EpochAfter =>
            /\ droppedConns' = droppedConns \cup ToDrop
            /\ connsToDrop' = <<>>
            /\ (epochPoolSize < idlePreConnPoolSize /\
                idlePreConnPoolSize <= poolCap) =>
                  runWaiting'[idlePreConnPoolSize] =
                     runWaiting[idlePreConnPoolSize] + 1
            /\ epochPoolSize >= idlePreConnPoolSize =>
                  UNCHANGED runWaiting]_vars
    /\ []((RefillAfterEpochDone /\ NoDialTook) =>
             poolSizeUnsafe >= idlePreConnPoolSize)

\* under FairPool: an Epoch that finds fewer than 2 connections in a pool
\* that can hold 2 leads to a pool of at least 2, unless a dial fails, as
\* long as nothing else takes connections out
C32_RefillReachesTwo ==
    (EpochFoundFew /\ PoolLeftAlone) ~>
        (poolSizeUnsafe >= idlePreConnPoolSize \/ RunDialFailed)

\* Epoch dropped the older of two pooled connections and kept the younger
C32_Witness_OlderDroppedYoungerKept ==
    /\ epochPc = "after"
    /\ Len(connsToDrop) = 1
    /\ shouldAfter = connsToDrop[1]
    /\ poolSizeUnsafe = 1
    /\ epochPoolSize = 1

\* runPreConn(2) has refilled the pool after an Epoch that left it empty
C32_RefilledAfterEpoch ==
    /\ droppedConns # {}
    /\ RefillAfterEpochDone
    /\ NoDialTook
    /\ poolSizeUnsafe = idlePreConnPoolSize

(***************************************************************************)
(* runPreConn: expectedPoolSize against the capacity of the pool           *)
(***************************************************************************)

\* the expectedPoolSize of the runPreConn goroutines started and not yet
\* past the test at the head of runPreConn
StartedExpected == {e \in DOMAIN runWaiting : runWaiting[e] > 0}

\* C33: for every accepted max_pool_size, 1 included, no runPreConn is
\* started with an expectedPoolSize above m.poolCap, and no goroutine
\* panics
C33_RunPreConnWithinCapacity ==
    /\ \A e \in StartedExpected : e <= poolCap
    /\ ~poolPanic

\* what holds of it: with max_pool_size 2 or more no runPreConn is started
\* above the capacity and nothing panics
C33_WithinCapacityFromTwo ==
    poolCap >= idlePreConnPoolSize => C33_RunPreConnWithinCapacity

\* with max_pool_size 1: a Dial took the one pooled connection, Epoch found
\* the pool empty and started runPreConn(2), which has panicked
C33_Witness_PanicWithCapacityOne ==
    /\ poolCap = 1
    /\ poolPanic
    /\ runWaiting[idlePreConnPoolSize] > 0
    /\ Len(handedConns) = 1
    /\ epochs = 1

(***************************************************************************)
(* SOCKS5Client.Request: the select between errCh and ctx.Done()           *)
(***************************************************************************)

\* the last instant of the clock, in milliseconds
MaxClock == 3

\* the contexts Request is called with: without a deadline, or with one
CtxConfigs ==
    {[hasDDL |-> FALSE, ddl |-> 0]} \cup
    {[hasDDL |-> TRUE, ddl |-> t] : t \in 1..MaxClock}

\* what no step of Request changes
rqFrame ==
    <<matcherVars, relayVars, socksVars, codecVars, poolVars, kcpVars, appVars,
      httpVars, afterRqVars, rqCtx>>

\* NewSOCKS5Client has built the client; Request is called with ctx
RqInit ==
    /\ MatcherIdle
    /\ RelayIdle
    /\ SocksIdle
    /\ CodecIdle
    /\ PoolIdle
    /\ KcpIdle
    /\ AppIdle
    /\ HttpIdle
    /\ AfterRqIdle
    /\ rqCtx \in CtxConfigs
    /\ rqCancelled = FALSE
    /\ rqNow = 0
    /\ rqPc = "dial"
    /\ rqTask = "none"
    /\ rqTaskErr = 0
    /\ rqErrCh = <<>>
    /\ rqConn = "none"
    /\ rqConnDdl = NoDeadline
    /\ rqRet = [stream |-> FALSE, err |-> 0]

\* <-ctx.Done() is ready: ctx was cancelled or its deadline has come
RqCtxDone == rqCancelled \/ (rqCtx.hasDDL /\ rqNow >= rqCtx.ddl)

\* a Read or Write on conn fails: conn is closed, or its deadline has come
RqIOFails ==
    \/ rqConn # "open"
    \/ (rqConnDdl # NoDeadline /\ rqNow >= rqConnDdl)

\* Request from c.Transport.Dial to its select: on a dial error it returns
\* ProxyGeneralErr; else it sets the deadline of conn when ctx has one and
\* starts the goroutine
RqDial(dialOk) ==
    /\ rqPc = "dial"
    /\ IF dialOk
       THEN /\ rqConn' = "open"
            /\ rqConnDdl' =
                  IF rqCtx.hasDDL THEN rqCtx.ddl - 1 ELSE NoDeadline
            /\ rqTask' = "doRequest"
            /\ rqPc' = "select"
            /\ UNCHANGED rqRet
       ELSE /\ rqRet' = [stream |-> FALSE, err |-> ProxyGeneralErr]
            /\ rqPc' = "returned"
            /\ UNCHANGED <<rqConn, rqConnDdl, rqTask>>
    /\ UNCHANGED <<rqFrame, rqCancelled, rqNow, rqTaskErr, rqErrCh>>

\* the goroutine: c.doRequest(conn, addr) returns pErr. It returns nil, or
\* the error code of the server's reply, only when its reads and writes went
\* through
RqDoRequest(pErr) ==
    /\ rqTask = "doRequest"
    /\ pErr # ProxyGeneralErr => ~RqIOFails
    /\ rqTaskErr' = pErr
    /\ rqTask' = "send"
    /\ UNCHANGED <<rqFrame, rqCancelled, rqNow, rqPc, rqErrCh, rqConn,
                   rqConnDdl, rqRet>>

\* the goroutine: errCh <- pErr, which has room for one
RqSendErrCh ==
    /\ rqTask = "send"
    /\ Len(rqErrCh) < 1
    /\ rqErrCh' = Append(rqErrCh, rqTaskErr)
    /\ rqTask' = "ended"
    /\ UNCHANGED <<rqFrame, rqCancelled, rqNow, rqPc, rqTaskErr, rqConn,
                   rqConnDdl, rqRet>>

\* Request: case err := <-errCh
RqSelectErrCh ==
    /\ rqPc = "select"
    /\ rqErrCh # <<>>
    /\ rqErrCh' = Tail(rqErrCh)
    /\ IF Head(rqErrCh) # 0
       THEN /\ rqConn' = "closed"
            /\ rqRet' = [stream |-> FALSE, err |-> Head(rqErrCh)]
            /\ UNCHANGED rqConnDdl
       ELSE /\ rqConnDdl' = NoDeadline
            /\ rqRet' = [stream |-> TRUE, err |-> 0]
            /\ UNCHANGED rqConn
    /\ rqPc' = "returned"
    /\ UNCHANGED <<rqFrame, rqCancelled, rqNow, rqTask, rqTaskErr>>

\* a Request that leaves conn open when ctx is done
RqSelectCtxDone_NoClose ==
    /\ rqPc = "select"
    /\ RqCtxDone
    /\ rqRet' = [stream |-> FALSE, err |-> ProxyGeneralErr]
    /\ rqPc' = "returned"
    /\ UNCHANGED <<rqFrame, rqCancelled, rqNow, rqTask, rqTaskErr, rqErrCh,
                   rqConn, rqConnDdl>>

\* Request: case <-ctx.Done()
RqSelectCtxDone ==
    /\ rqPc = "select"
    /\ RqCtxDone
    /\ rqConn' = "closed"
    /\ rqRet' = [stream |-> FALSE, err |-> ProxyGeneralErr]
    /\ rqPc' = "returned"
    /\ UNCHANGED <<rqFrame, rqCancelled, rqNow, rqTask, rqTaskErr, rqErrCh,
                   rqConnDdl>>

\* the owner of ctx cancels it
RqCtxCancel ==
    /\ ~rqCancelled
    /\ rqPc # "none"
    /\ rqCancelled' = TRUE
    /\ UNCHANGED <<rqFrame, rqNow, rqPc, rqTask, rqTaskErr, rqErrCh, rqConn,
                   rqConnDdl, rqRet>>

\* a millisecond passes
RqTimePasses ==
    /\ rqPc # "none"
    /\ rqNow < MaxClock
    /\ rqNow' = rqNow + 1
    /\ UNCHANGED <<rqFrame, rqCancelled, rqPc, rqTask, rqTaskErr, rqErrCh,
                   rqConn, rqConnDdl, rqRet>>

RqNext ==
    \/ \E dialOk \in BOOLEAN : RqDial(dialOk)
    \/ \E pErr \in {0} \cup ProxyErrorTypes : RqDoRequest(pErr)
    \/ RqSendErrCh
    \/ RqSelectErrCh
    \/ RqSelectCtxDone
    \/ RqCtxCancel
    \/ RqTimePasses

SpecRequest == RqInit /\ [][RqNext]_vars

\* Request returned conn and a nil error
RqReturnedStream == rqRet.stream /\ rqRet.err = 0

\* Request returned an error and no stream
RqReturnedError == ~rqRet.stream /\ rqRet.err # 0

\* C34: once Request has returned, either it returned the stream with a nil
\* error, the connection open and its deadline cleared, or it returned an
\* error with no stream and no connection left open; and while the
\* handshake goroutine is in doRequest and Request waits, the deadline of
\* the connection is 1 ms before the deadline of ctx when ctx has one, and
\* none when it has none
C34_RequestStreamOrClosed ==
    /\ rqPc = "returned" =>
          \/ RqReturnedStream /\ rqConn = "open" /\ rqConnDdl = NoDeadline
          \/ RqReturnedError /\ rqConn # "open"
    /\ (rqPc = "select" /\ rqTask = "doRequest") =>
          /\ rqConn = "open"
          /\ rqConnDdl =
                IF rqCtx.hasDDL THEN rqCtx.ddl - 1 ELSE NoDeadline

\* ctx was done and errCh held a nil error at the same time; Request took
\* the ctx.Done() case and closed the connection of a finished handshake
C34_Witness_CancelledAfterHandshake ==
    /\ rqPc = "returned"
    /\ rqErrCh = <<0>>
    /\ rqRet.err = ProxyGeneralErr
    /\ rqConn = "closed"
    /\ rqCtx.hasDDL

\* Request returned the stream of a context with a deadline
C34_StreamWithDeadlineCleared ==
    /\ rqPc = "returned"
    /\ RqReturnedStream
    /\ rqCtx.hasDDL
    /\ rqNow >= rqCtx.ddl

(***************************************************************************)
(* NewRuleMatcher: the regexp newDomainMatcher builds from the rules       *)
(***************************************************************************)

\* the most domain patterns of a rule
MaxDomains == 1

\* the names of the rules besides the default rule
DomainRuleNames == {"a", "b"}

\* the domain patterns of the model, as strings of characters: two that
\* regexp.Compile accepts and one it refuses
ValidDomainPatterns == {<<"x">>, <<"(", "x", ")">>}

DomainPatterns == ValidDomainPatterns \cup {<<"(">>}

\* RuleConfig.IPs of the model: no pattern, one that net.ParseCIDR or
\* net.ParseIP accepts, one that both refuse
IPsKinds == {"none", "valid", "invalid"}

\* the RuleConfig of the model
RuleConfigs ==
    [Domains : UNION {[1..n -> DomainPatterns] : n \in 0..MaxDomains},
     IPs : IPsKinds]

\* config map[string]RuleConfig
DmConfigs ==
    UNION {[names -> RuleConfigs] :
              names \in SUBSET (DomainRuleNames \cup {defaultRuleName})}

\* the orders in which range may visit the keys of a map
RangeOrders(S) ==
    {o \in [1..Cardinality(S) -> S] : \A i, j \in DOMAIN o : o[i] = o[j] => i = j}

\* buf.Truncate(buf.Len() - 1)
TruncateLast(buf) == SubSeq(buf, 1, Len(buf) - 1)

\* the nesting of the groups at the end of a regexp, -1 once a group is
\* closed that was not opened
RECURSIVE GroupDepth(_, _)
GroupDepth(buf, depth) ==
    IF depth < 0 THEN -1
    ELSE IF buf = <<>> THEN depth
    ELSE GroupDepth(Tail(buf),
                    IF Head(buf) = "(" THEN depth + 1
                    ELSE IF Head(buf) = ")" THEN depth - 1
                    ELSE depth)

\* regexp.Compile on the strings of the model, made of flags, named groups,
\* anchors, alternations and letters: it fails on a group left open and on
\* a group closed that was not opened
regexp_Compile(buf) == GroupDepth(buf, 0) = 0

\* newDomainMatcher: fmt.Fprintf(buf, "(^%s$)|", pattern) for the patterns
\* of a rule from k on
RECURSIVE WritePatterns(_, _, _)
WritePatterns(buf, patterns, k) ==
    IF k > Len(patterns) THEN buf
    ELSE WritePatterns(buf \o <<"(", "^">> \o patterns[k] \o <<"$", ")", "|">>,
                       patterns, k + 1)

\* newDomainMatcher: the loop over the rules, in the order range visits
\* them; a rule without patterns writes nothing
RECURSIVE WriteRules(_, _, _, _)
WriteRules(buf, rules, order, k) ==
    IF k > Len(order) THEN buf
    ELSE LET name == order[k]
             patterns == rules[name]
         IN  IF Len(patterns) > 0
             THEN WriteRules(
                     TruncateLast(
                        WritePatterns(buf \o <<"(", "?", "P", "<", name, ">">>,
                                      patterns, 1))
                     \o <<")", "|">>,
                     rules, order, k + 1)
             ELSE WriteRules(buf, rules, order, k + 1)

\* newDomainMatcher: "^$" without rules; else "(?i)", the groups of the
\* rules, the last character dropped, and regexp.Compile
newDomainMatcher(rules, order) ==
    IF DOMAIN rules = {}
    THEN [err |-> FALSE, buf |-> <<"^", "$">>]
    ELSE LET buf ==
                 TruncateLast(WriteRules(<<"(", "?", "i", ")">>, rules, order, 1))
         IN  [err |-> ~regexp_Compile(buf), buf |-> buf]

\* newIPMatcher returns an error: a pattern that neither net.ParseCIDR nor
\* net.ParseIP accepts
IPPatternRefused(ipRules) == \E name \in DOMAIN ipRules : ipRules[name] = "invalid"

\* NewRuleMatcher: the default rule must have no patterns; the other rules
\* go to newDomainMatcher and then to newIPMatcher
NewRuleMatcher(config, order) ==
    LET names == DOMAIN config \ {defaultRuleName}
        domainRules == [name \in names |-> config[name].Domains]
        ipRules == [name \in names |-> config[name].IPs]
        dm == newDomainMatcher(domainRules, order)
    IN  IF /\ defaultRuleName \in DOMAIN config
           /\ \/ Len(config[defaultRuleName].Domains) > 0
              \/ config[defaultRuleName].IPs # "none"
        THEN [st |-> "err", buf |-> <<>>]
        ELSE IF dm.err THEN [st |-> "err", buf |-> dm.buf]
        ELSE IF IPPatternRefused(ipRules) THEN [st |-> "err", buf |-> dm.buf]
        ELSE [st |-> "ok", buf |-> dm.buf]

\* what NewRuleMatcher leaves alone
dmFrame ==
    <<matcherVars, relayVars, socksVars, codecVars, poolVars, kcpVars, appVars,
      httpVars, rqVars, bsVars, kwVars>>

\* a configuration is loaded; NewRuleMatcher is not called yet
DmInit ==
    /\ MatcherIdle
    /\ RelayIdle
    /\ SocksIdle
    /\ CodecIdle
    /\ PoolIdle
    /\ KcpIdle
    /\ AppIdle
    /\ HttpIdle
    /\ RqIdle
    /\ BsIdle
    /\ KwIdle
    /\ dmConfig \in DmConfigs
    /\ dmResult = [st |-> "none", buf |-> <<>>]

\* NewRuleMatcher(config), range visiting the rules in some order
DmNewRuleMatcher(order) ==
    /\ dmResult.st = "none"
    /\ dmResult' = NewRuleMatcher(dmConfig, order)
    /\ UNCHANGED <<dmFrame, dmConfig>>

DmNext ==
    \E order \in RangeOrders(DOMAIN dmConfig \ {defaultRuleName}) :
        DmNewRuleMatcher(order)

SpecDomain == DmInit /\ [][DmNext]_vars

\* every IP and domain pattern of the configuration is valid, and its
\* default rule has no patterns
ValidRuleConfig(config) ==
    \A name \in DOMAIN config :
        /\ \A k \in DOMAIN config[name].Domains :
              config[name].Domains[k] \in ValidDomainPatterns
        /\ config[name].IPs # "invalid"
        /\ name = defaultRuleName =>
              /\ config[name].Domains = <<>>
              /\ config[name].IPs = "none"

\* the rules besides the default rule
OtherRules(config) == DOMAIN config \ {defaultRuleName}

\* C36: NewRuleMatcher succeeds for every configuration whose IP and domain
\* patterns are valid and whose default rule has no patterns, also when
\* there are rules and none of them has a domain pattern
C36_ValidConfigSucceeds ==
    (dmResult.st # "none" /\ ValidRuleConfig(dmConfig)) => dmResult.st = "ok"

\* what holds of it: such a configuration succeeds when it has no rule
\* besides the default rule, or a rule with a domain pattern
C36_SucceedsWithADomainPattern ==
    (/\ dmResult.st # "none"
     /\ ValidRuleConfig(dmConfig)
     /\ \/ OtherRules(dmConfig) = {}
        \/ \E name \in OtherRules(dmConfig) : dmConfig[name].Domains # <<>>)
    => dmResult.st = "ok"

\* a configuration of one rule with a valid IP pattern and no domain
\* pattern, and a default rule: NewRuleMatcher returned the error of
\* compiling "(?i"
C36_Witness_IPOnlyRuleFails ==
    /\ DOMAIN dmConfig = {"a", defaultRuleName}
    /\ dmConfig["a"] = [Domains |-> <<>>, IPs |-> "valid"]
    /\ ValidRuleConfig(dmConfig)
    /\ dmResult = [st |-> "err", buf |-> <<"(", "?", "i">>]

(***************************************************************************)
(* bitStrFromBytes against the bits of its argument                        *)
(***************************************************************************)

\* the most bytes of b
MaxBytes == 4

\* the byte values of the model
ByteValues == {0, 1, 128, 255}

\* b, and the lengths n with 0 < n <= 8 * len(b)
ByteSlices == UNION {[1..k -> ByteValues] : k \in 1..MaxBytes}

\* what bitStrFromBytes leaves alone
bsFrame ==
    <<matcherVars, relayVars, socksVars, codecVars, poolVars, kcpVars, appVars,
      httpVars, rqVars, dmVars, kwVars>>

\* a byte slice and a bit length within it
BsInit ==
    /\ MatcherIdle
    /\ RelayIdle
    /\ SocksIdle
    /\ CodecIdle
    /\ PoolIdle
    /\ KcpIdle
    /\ AppIdle
    /\ HttpIdle
    /\ RqIdle
    /\ DmIdle
    /\ KwIdle
    /\ bsBytes \in ByteSlices
    /\ bsLength \in 1..(8 * Len(bsBytes))
    /\ bsResult = [st |-> "none", Words |-> <<>>, BitLen |-> 0]

\* bitStrFromBytes(b, n)
BsFromBytes ==
    /\ bsResult.st = "none"
    /\ LET str == bitStrFromBytes(bsBytes, bsLength) IN
       bsResult' = [st |-> "done", Words |-> str.Words, BitLen |-> str.BitLen]
    /\ UNCHANGED <<bsFrame, bsBytes, bsLength>>

BsNext == BsFromBytes

SpecBitStr == BsInit /\ [][BsNext]_vars

\* the bitStr returned
BsStr == [Words |-> bsResult.Words, BitLen |-> bsResult.BitLen]

\* the bits of the result are the bits of b, from the most significant bit
\* of its first byte on
BitsOfBytes ==
    /\ bsResult.BitLen = bsLength
    /\ \A i \in 0..(bsLength - 1) :
          Bit(BsStr, i) <=> (BitOfBytes(bsBytes, i) = 1)

\* C37: for every b and every n with 0 < n <= 8 * len(b), the result of
\* bitStrFromBytes(b, n) has the bit length n and its bit i is bit i of b,
\* counted from the most significant bit of the first byte
C37_BitStrIsBitsOfBytes == bsResult.st = "done" => BitsOfBytes

\* what holds of it: the same when the last word has no fourth byte, i.e.
\* n is a multiple of 32 or n % 32 is at most 24
C37_HoldsUpToThreeTailingBytes ==
    (bsResult.st = "done" /\ (bsLength % bitStrWordSize) \in 0..24)
    => BitsOfBytes

\* 25 bits of the bytes 0, 0, 0, 0x80: the bit of the fourth byte is at
\* place 20 of the result, and place 24 is clear
C37_Witness_FourthByteMisplaced ==
    /\ bsResult.st = "done"
    /\ bsBytes = <<0, 0, 0, 128>>
    /\ bsLength = 25
    /\ Bit(BsStr, 20)
    /\ ~Bit(BsStr, 24)

(***************************************************************************)
(* ReadPacket on the proper prefixes of a written packet                   *)
(***************************************************************************)

\* ReadPacket returned an error: no packet, and it does not wait for more
ReadFailed(r) == r.st \in {"err", "addrErr"}

\* C38: for every packet WritePacket accepts and every proper prefix of the
\* written bytes, the empty one included, ReadPacket on a reader that ends
\* after the prefix returns an error and no packet
C38_ReadPacketFailsOnProperPrefix ==
    /\ codecPc = "readLimited" =>
          /\ Len(reader) < Len(wire)
          /\ reader = SubSeq(wire, 1, Len(reader))
          /\ ReadFailed(newPkt)
    /\ codecPc = "written" =>
          \A n \in 0..(Len(wire) - 1) :
              ReadFailed(ReadPacket(packet.kind, SubSeq(wire, 1, n), TRUE))

\* a socksUserPassReq cut right after the user name, where the next
\* io.ReadFull starts on an exhausted reader, was refused
C38_Witness_CutAfterUsername ==
    /\ codecPc = "readLimited"
    /\ packet.kind = "UserPassReq"
    /\ Len(reader) = 2 + Len(packet.Username)
    /\ newPkt.st = "err"

\* the empty input was refused for a socksReqResp
C38_EmptyInputRefused ==
    /\ codecPc = "readLimited"
    /\ packet.kind = "ReqResp"
    /\ reader = <<>>
    /\ newPkt.st = "err"

(***************************************************************************)
(* WritePacket on the packets it must refuse                               *)
(***************************************************************************)

\* a length no length byte of a SOCKS5 field may carry
BadLength(n) == n = 0 \/ n > 255

\* the packets of the error cases of packetTestCases
Malformed(p) ==
    \/ p.kind = "Hello" /\ BadLength(Len(p.Methods))
    \/ p.kind = "UserPassReq"
          /\ (BadLength(Len(p.Username)) \/ BadLength(Len(p.Password)))
    \/ p.kind = "ReqResp" /\ p.Addr.type = "Domain" /\ Len(p.Addr.name) > 255
    \/ p.kind = "ReqResp" /\ p.Addr = NilAddr

\* C39: WritePacket on a Hello with 0 or more than 255 methods, on a
\* UserPassReq whose user name or password has 0 or more than 255 bytes, or
\* on a ReqResp with a domain name of more than 255 bytes or with no
\* address, returns an error, and the writer has received no byte
C39_WritePacketRefusesMalformed ==
    /\ Malformed(packet) =>
          /\ WritePacket(packet).st = "err"
          /\ WritePacket(packet).bytes = <<>>
          /\ codecPc \in {"new", "writeErr"}
          /\ wire = <<>>
          /\ reader = <<>>
    /\ codecPc = "writeErr" => wire = <<>> /\ reader = <<>>

\* WritePacket has refused a UserPassReq for its password of 256 bytes, the
\* user name being in order
C39_Witness_LongPasswordRefused ==
    /\ codecPc = "writeErr"
    /\ packet.kind = "UserPassReq"
    /\ Len(packet.Username) = 1
    /\ Len(packet.Password) = 256
    /\ wire = <<>>

\* WritePacket has refused a ReqResp without an address
C39_NilAddrRefused ==
    /\ codecPc = "writeErr"
    /\ packet.kind = "ReqResp"
    /\ packet.Addr = NilAddr

\* WritePacket has refused a Hello without methods
C39_NoMethodsRefused ==
    /\ codecPc = "writeErr"
    /\ packet.kind = "Hello"
    /\ packet.Methods = <<>>

(***************************************************************************)
(* relayHalf pumping into a kcpConnWrapper: what Write returns and what    *)
(* the relay counts                                                        *)
(***************************************************************************)

\* the most bytes of the source
MaxSrcBytes == 4

\* the length of the header of a DATA frame: the type and the length
kcpHeaderLen == 5

\* the streams of the source
KwSources == UNION {[1..k -> PayloadBytes] : k \in 0..MaxSrcBytes}

\* UDPSession.Write(buf) as an io.Writer: all of buf and no error, or an
\* error on a session that is closed
UDPSession_Write(buf, open) ==
    IF open THEN [n |-> Len(buf), err |-> FALSE, sent |-> buf]
    ELSE [n |-> 0, err |-> TRUE, sent |-> <<>>]

\* kcpConnWrapper.Write(b): the frame is built and given to the session,
\* whose result is returned as it is; len(b) > 0xffffffff does not occur
\* with the buffers of the relay
kcpConnWrapper_Write(b, open) == UDPSession_Write(kcpDataFrame(b), open)

\* what the relay over KCP leaves alone
kwFrame ==
    <<matcherVars, relayVars, socksVars, codecVars, poolVars, kcpVars, appVars,
      httpVars, rqVars, dmVars, bsVars>>

\* relayHalf enters its loop, dst being a kcpConnWrapper
KwInit ==
    /\ MatcherIdle
    /\ RelayIdle
    /\ SocksIdle
    /\ CodecIdle
    /\ PoolIdle
    /\ KcpIdle
    /\ AppIdle
    /\ HttpIdle
    /\ RqIdle
    /\ DmIdle
    /\ BsIdle
    /\ kwSrc \in KwSources
    /\ kwPc = "read"
    /\ kwBuf = <<>>
    /\ kwRet = 0
    /\ kwErr = "nil"
    /\ kwN = 0
    /\ kwRead = 0
    /\ kwWrites = 0
    /\ kwSession = <<>>

\* relayHalf: src.Read(buf) returns nr bytes and no error
KwSrcRead(nr) ==
    /\ kwPc = "read"
    /\ nr <= Len(kwSrc)
    /\ kwBuf' = SubSeq(kwSrc, 1, nr)
    /\ kwSrc' = Drop(kwSrc, nr)
    /\ kwRead' = kwRead + nr
    /\ kwPc' = "write"
    /\ UNCHANGED <<kwFrame, kwRet, kwErr, kwN, kwWrites, kwSession>>

\* relayHalf: src.Read returns io.EOF, which ends the loop with a nil error
KwSrcEOF ==
    /\ kwPc = "read"
    /\ kwSrc = <<>>
    /\ kwPc' = "done"
    /\ kwErr' = "nil"
    /\ UNCHANGED <<kwFrame, kwSrc, kwBuf, kwRet, kwN, kwRead, kwWrites,
                   kwSession>>

\* relayHalf: nw, err = dst.Write(buf[:nr]); n += int64(nw); the loop ends
\* on an error and on nw < nr
KwDstWrite(open) ==
    /\ kwPc = "write"
    /\ LET w == kcpConnWrapper_Write(kwBuf, open) IN
       /\ kwRet' = w.n
       /\ kwN' = kwN + w.n
       /\ kwSession' = kwSession \o w.sent
       /\ kwWrites' = IF w.err THEN kwWrites ELSE kwWrites + 1
       /\ IF w.err THEN kwErr' = "write" /\ kwPc' = "done"
          ELSE IF w.n < Len(kwBuf)
               THEN kwErr' = "ErrShortWrite" /\ kwPc' = "done"
               ELSE kwErr' = "nil" /\ kwPc' = "read"
    /\ UNCHANGED <<kwFrame, kwSrc, kwBuf, kwRead>>

KwNext ==
    \/ \E nr \in 1..MaxWriteLen : KwSrcRead(nr)
    \/ KwSrcEOF
    \/ \E open \in BOOLEAN : KwDstWrite(open)

SpecKcpWrite == KwInit /\ [][KwNext]_vars

\* dst.Write has just returned without an error
KwWriteSucceeded == kwPc \in {"read", "done"} /\ kwWrites > 0 /\ kwErr = "nil"

\* C40: a Write(b) on a KCP connection that succeeds returns len(b), the
\* 5 bytes of the frame header not counted, so that the n relayHalf has
\* summed from the results of Write is the number of bytes read from the
\* source
C40_WriteReturnsLenOfUserBytes ==
    /\ (KwWriteSucceeded /\ kwPc = "read") => kwRet = Len(kwBuf)
    /\ (kwPc = "done" /\ kwErr = "nil") => kwN = kwRead

\* what holds in its place: Write returns the length of the frame, and the
\* relay counts 5 bytes more than it read for every Write; the session has
\* received one frame per Write
C40_WriteReturnsLenOfFrame ==
    /\ (KwWriteSucceeded /\ kwPc = "read") => kwRet = Len(kwBuf) + kcpHeaderLen
    /\ kwErr = "nil" =>
          /\ kwN = (kwRead - (IF kwPc = "write" THEN Len(kwBuf) ELSE 0))
                    + kcpHeaderLen * kwWrites
          /\ Len(kwSession) = kwN
    /\ kwErr # "ErrShortWrite"

\* the relay has read 2 bytes in one Read, Write has returned 7, and the
\* relay has ended without an error with n = 7
C40_Witness_TwoBytesCountedSeven ==
    /\ kwPc = "done"
    /\ kwErr = "nil"
    /\ kwRead = 2
    /\ kwBuf = <<1, 2>>
    /\ kwRet = 7
    /\ kwN = 7
    /\ kwSession = kcpDataFrame(<<1, 2>>)

====
